---- MODULE Spec2Model ----
(***************************************************************************)
(* ILI9488 SPI TFT driver for the Raspberry Pi Pico: the transport (HAL)   *)
(* and the addressing engine, as a state machine.                          *)
(*                                                                         *)
(* Two builds of the driver live in the repository and both are modelled:  *)
(*   "dma"    : unnamed/part_012 (engine) + unnamed/part_014 (HAL), the    *)
(*              DMA-capable variant declared by include/ili9488_hal.h;     *)
(*   "legacy" : src/ili9488.c (engine) + src/ili9488_hal.c (HAL), the      *)
(*              older variant whose HAL guards every call on its own       *)
(*              is_initialized flag and has no DMA path.                   *)
(* The build is fixed in the initial state and never changes.              *)
(*                                                                         *)
(* Main-line calls are atomic steps (single core, no scheduler); the DMA   *)
(* completion interrupt is a step of its own, and the busy-wait of         *)
(* ili9488_hal_wait_dma_idle is a position of the main line (pc) so that   *)
(* the interrupt can fire while the main line spins.                       *)
(*                                                                         *)
(* bus is the list of things the most recent step did to the outside       *)
(* world (GPIO writes, SPI transfers, delays, DMA register writes); last   *)
(* is that step's name, arguments and return value.                        *)
(*                                                                         *)
(* panel is what the driver has told the controller about its display mode *)
(* since the controller's last reset: whether partial mode is on, and the  *)
(* rows of the last partial-area command.  The driver keeps no copy of     *)
(* either.                                                                 *)
(*                                                                         *)
(* In the DMA-capable build the HAL has no initialized flag: a call that   *)
(* clocks bytes before ili9488_hal_init hands spi_write_blocking the NULL  *)
(* instance of the zeroed hw_config.  That is undefined; the model takes   *)
(* both outcomes, the write going nowhere and the core faulting (halted).  *)
(***************************************************************************)
EXTENDS Integers, Sequences, FiniteSets, TLC

VARIABLES build, ili9488, hw_config, gpio, dma_channel, dma_busy, dma_hw,
          pc, halted, bus, last, panel

vars == <<build, ili9488, hw_config, gpio, dma_channel, dma_busy, dma_hw,
          pc, halted, bus, last, panel>>

(***************************************************************************)
(* Bounds of the model.                                                    *)
(***************************************************************************)
\* rotation arguments are uint8_t; the model draws them from 0..MaxRotArg
MaxRotArg == 4
\* caller buffers are numbered 1..NumBufs; pointer 0 is NULL
NumBufs == 1
\* buffer lengths passed by callers are 0..MaxLen
MaxLen == 2
\* colour arrays passed by callers have 0..MaxColors elements
MaxColors == 3
\* the model follows a pixel stream for at most MaxPixels pixels
MaxPixels == 300

(***************************************************************************)
(* Program constants.                                                      *)
(***************************************************************************)
NULL == 0
NO_CHANNEL == -1
SPI0 == 1

PIN_CS == 17
PIN_DC == 20
PIN_RESET == 15
PIN_BL == 10

ILI9488_SWRESET == 1
ILI9488_SLPOUT == 17
ILI9488_INVON == 33
ILI9488_DISPON == 41
ILI9488_CASET == 42
ILI9488_PASET == 43
ILI9488_RAMWR == 44
ILI9488_MADCTL == 54
ILI9488_PTLON == 18
ILI9488_NORON == 19
ILI9488_PTLAR == 48
ILI9488_PIXFMT == 58
ILI9488_VCOM == 197
ILI9488_PWCTRL3 == 194
ILI9488_PGAMCTRL == 224
ILI9488_NGAMCTRL == 225

ILI9488_MADCTL_MY == 128
ILI9488_MADCTL_MX == 64
ILI9488_MADCTL_MV == 32
ILI9488_MADCTL_BGR == 8

PIXFMT_18BIT == 102
MADCTL_DEFAULT == 72

CHUNK_SIZE == 4096

Pins == {0, PIN_CS, PIN_DC, PIN_RESET, PIN_BL}

Builds == {"dma", "legacy"}

(***************************************************************************)
(* Inputs.                                                                 *)
(***************************************************************************)
RotArgs == 0..MaxRotArg
\* the example programs configure 320x480; the second size is a config that
\* disagrees with the panel
CfgSizes == {<<320, 480>>, <<240, 320>>}
Pointers == 0..NumBufs
Lengths == 0..MaxLen

\* the i-th byte (1-based) of caller buffer p
BufByte(p, i) == (16 * p + i) % 256
BufBytes(p, len) == [i \in 1..len |-> BufByte(p, i)]

\* RGB565 and 24-bit colours callers pass: white, and a colour whose three
\* channels differ
Colors565 == {65535, 4660}
Colors24 == {16777215, 1193046}

\* colors[i] (0-based) of the caller's colour array at pointer p
Color565At(p, i) == (63488 + 2113 * i + p) % 65536
Color24At(p, i) == (16711680 + 65793 * 86 * i + p) % 16777216
\* the (colors, len) pairs callers pass: a NULL array, and every array with
\* every length from 0
ColorArgs ==
    {<<NULL, 1>>} \cup {<<p, len>> : p \in Pointers \ {NULL}, len \in 0..MaxColors}

\* buffer lengths around the chunk size of the HAL: one chunk, one byte
\* more, and two chunks and a byte
BufferLengths == Lengths \cup {CHUNK_SIZE, CHUNK_SIZE + 1, 2 * CHUNK_SIZE + 1}

\* partial areas asked for: the band of the demo, the same reversed, a band
\* that fits the portrait display only, and bounds on and past the edges
PartialRects ==
    { <<0, 100, 319, 200>>, <<0, 200, 319, 100>>, <<0, 400, 0, 479>>,
      <<0, 0, 0, 480>>, <<480, 0, 0, 10>> }
\* what is drawn while the display mode is exercised
ModeWindows == { <<0, 0, 319, 479>>, <<0, 100, 10, 150>> }
ModePixels == { <<0, 0>>, <<0, 300>> }
ModeFills == { <<0, 0, 1, 1>> }
ModeColor == 4660
ModeColor24 == 1193046

\* every value of a uint16_t colour
Words565 == 0..65535
\* 24-bit colours: the greys, and the channels mixed from a few levels
ChannelLevels == {0, 1, 3, 4, 18, 52, 86, 252, 255}
Words24 ==
    {65793 * c : c \in 0..255}
    \cup {65536 * r + 256 * g + b : r, g, b \in ChannelLevels}

\* windows callers address directly: corners ordered, reversed on both axes
\* and on one, the whole panel, and bounds above 255
WindowRects ==
    { <<5, 5, 10, 10>>, <<10, 10, 5, 5>>, <<0, 0, 319, 479>>,
      <<300, 5, 5, 300>> }

\* pixel positions: the origin, and the shorter side of the panel, which is
\* inside a 480-long axis and outside a 320-long one
PixelCoords == {0, 320}

\* rectangles handed to the fill operations: 100 and 280 pixels with the
\* corners ordered, reversed on both axes and on one, and corners at the
\* shorter side of the panel and at its longer side
FillRects ==
    { <<0, 0, 9, 9>>, <<9, 9, 0, 0>>, <<9, 0, 0, 9>>,
      <<0, 0, 19, 13>>, <<19, 13, 0, 0>>,
      <<320, 0, 320, 0>>, <<0, 480, 0, 480>> }

\* rectangles handed to the pixel-array writes: a 4-pixel row, 33 pixels,
\* and corners reversed on one axis and on both
PixelRects ==
    { <<0, 0, 3, 0>>, <<0, 0, 10, 2>>, <<3, 0, 0, 0>>, <<3, 3, 0, 0>> }

(***************************************************************************)
(* Things a step does to the outside world.                                *)
(***************************************************************************)
gpio_put(pin, level) == <<"gpio", pin, level>>
spi_write_blocking(inst, bytes) == <<"spi", inst, bytes>>
sleep_ms(ms) == <<"delay_ms", ms>>
spi_init(inst) == <<"spi_init", inst>>
pwm_set_chan_level(pin, level) == <<"pwm", pin, level>>

IsGpio(e) == e[1] = "gpio"
IsSpi(e) == e[1] = "spi"

\* the GPIO levels after the events evs, starting from levels g: every pin
\* holds the last level written to it
WritesPin(e, p) == IsGpio(e) /\ e[2] = p
ApplyGpio(g, evs) ==
    [p \in DOMAIN g |->
        IF \A i \in 1..Len(evs) : ~WritesPin(evs[i], p) THEN g[p]
        ELSE evs[CHOOSE i \in 1..Len(evs) :
                    /\ WritesPin(evs[i], p)
                    /\ \A j \in (i + 1)..Len(evs) : ~WritesPin(evs[j], p)][3]]

(***************************************************************************)
(* Transport (HAL).  Every operator below yields the list of things the    *)
(* function does, given the hardware configuration hw it runs with.        *)
(***************************************************************************)
ZeroHwConfig ==
    [spi |-> NULL, pin_cs |-> 0, pin_dc |-> 0, pin_reset |-> 0, pin_bl |-> 0,
     is_initialized |-> FALSE]

\* the configuration ili9488_init builds from the board's pins
BoardHwConfig ==
    [spi |-> SPI0, pin_cs |-> PIN_CS, pin_dc |-> PIN_DC,
     pin_reset |-> PIN_RESET, pin_bl |-> PIN_BL, is_initialized |-> FALSE]

\* the legacy HAL returns early from every call until its flag is set; the
\* DMA-capable HAL has no such flag
HalGuardOpen(hw) == build = "dma" \/ hw.is_initialized

ili9488_hal_cs(hw, level) == gpio_put(hw.pin_cs, level)
ili9488_hal_dc(hw, level) == gpio_put(hw.pin_dc, level)

ili9488_hal_delay_ms(ms) == sleep_ms(ms)

\* reset-line timings of the two HALs: settle, low pulse, recovery
ResetSettleMs == 10
ResetPulseMs == IF build = "dma" THEN 10 ELSE 20
ResetRecoverMs == IF build = "dma" THEN 150 ELSE 120

ili9488_hal_reset(hw) ==
    IF ~HalGuardOpen(hw) THEN <<>>
    ELSE << gpio_put(hw.pin_reset, 1), sleep_ms(ResetSettleMs),
            gpio_put(hw.pin_reset, 0), sleep_ms(ResetPulseMs),
            gpio_put(hw.pin_reset, 1), sleep_ms(ResetRecoverMs) >>

\* ili9488_hal_set_backlight: the DMA-capable HAL returns when no backlight
\* pin is configured and sets the PWM level to 255 or 0; the legacy HAL
\* returns until its flag is set and sets the level to 65535 or 0 (PWM is
\* always enabled once it is)
NO_PIN == -1
ili9488_hal_set_backlight(hw, on) ==
    IF build = "dma"
    THEN IF hw.pin_bl = NO_PIN THEN <<>>
         ELSE << pwm_set_chan_level(hw.pin_bl, IF on THEN 255 ELSE 0) >>
    ELSE IF ~hw.is_initialized THEN <<>>
         ELSE << pwm_set_chan_level(hw.pin_bl, IF on THEN 65535 ELSE 0) >>

\* a command write that leaves the D/C line where the last write put it
hal_write_cmd_leaves_dc(hw, cmd) ==
    IF ~HalGuardOpen(hw) THEN <<>>
    ELSE << ili9488_hal_cs(hw, 0),
            spi_write_blocking(hw.spi, <<cmd>>), ili9488_hal_cs(hw, 1) >>

ili9488_hal_write_cmd(hw, cmd) ==
    IF ~HalGuardOpen(hw) THEN <<>>
    ELSE << ili9488_hal_cs(hw, 0), ili9488_hal_dc(hw, 0),
            spi_write_blocking(hw.spi, <<cmd>>), ili9488_hal_cs(hw, 1) >>

ili9488_hal_write_data(hw, data) ==
    IF ~HalGuardOpen(hw) THEN <<>>
    ELSE << ili9488_hal_cs(hw, 0), ili9488_hal_dc(hw, 1),
            spi_write_blocking(hw.spi, <<data>>), ili9488_hal_cs(hw, 1) >>

\* the SPI transfers of one buffer write: the DMA-capable HAL sends chunks of
\* at most CHUNK_SIZE bytes, the legacy HAL one transfer
RECURSIVE SpiChunks(_, _)
SpiChunks(hw, bytes) ==
    IF Len(bytes) = 0 THEN <<>>
    ELSE LET chunk_size == IF Len(bytes) > CHUNK_SIZE THEN CHUNK_SIZE
                           ELSE Len(bytes)
         IN <<spi_write_blocking(hw.spi, SubSeq(bytes, 1, chunk_size))>>
            \o SpiChunks(hw, SubSeq(bytes, chunk_size + 1, Len(bytes)))

\* data is the pointer (NULL or not), bytes what it points to, len the length
ili9488_hal_write_data_buffer(hw, data, bytes, len) ==
    IF ~HalGuardOpen(hw) \/ data = NULL \/ len = 0 THEN <<>>
    ELSE << ili9488_hal_cs(hw, 0), ili9488_hal_dc(hw, 1) >>
         \o (IF build = "dma" THEN SpiChunks(hw, SubSeq(bytes, 1, len))
             ELSE <<spi_write_blocking(hw.spi, SubSeq(bytes, 1, len))>>)
         \o << ili9488_hal_cs(hw, 1) >>

\* hw_config after a successful ili9488_hal_init
HalInitConfig ==
    [BoardHwConfig EXCEPT !.is_initialized = (build = "legacy")]

\* config_ok: the config pointer is not NULL.  hw is hw_config before the call
ili9488_hal_init_ret(config_ok) == config_ok

ili9488_hal_init_events(hw, config_ok) ==
    IF ~config_ok THEN <<>>
    ELSE IF build = "dma"
    THEN << spi_init(SPI0),
            <<"gpio_init", PIN_CS>>, <<"gpio_init", PIN_DC>>,
            <<"gpio_init", PIN_RESET>>,
            gpio_put(PIN_CS, 1), gpio_put(PIN_DC, 1), gpio_put(PIN_RESET, 1),
            pwm_set_chan_level(PIN_BL, 255) >>
    ELSE << <<"gpio_init", PIN_DC>>, <<"gpio_init", PIN_CS>>,
            <<"gpio_init", PIN_RESET>>, <<"gpio_init", PIN_BL>>,
            gpio_put(PIN_CS, 1), gpio_put(PIN_DC, 1), gpio_put(PIN_RESET, 1),
            gpio_put(PIN_BL, 0),
            spi_init(SPI0),
            pwm_set_chan_level(PIN_BL, 0) >>
         \* the reset inside the legacy init runs before the flag is set
         \o ili9488_hal_reset([BoardHwConfig EXCEPT
                                  !.is_initialized = hw.is_initialized])

ili9488_hal_init_config(hw, config_ok) ==
    IF config_ok THEN HalInitConfig ELSE hw

(***************************************************************************)
(* Transport: the DMA path (DMA-capable build only).                       *)
(***************************************************************************)
\* dma_claim_unused_channel(true) panics rather than return -1, so a claim
\* always yields a channel; no other code of the repository claims one, so
\* it is the first
FIRST_DMA_CHANNEL == 0
DmaChannels == {FIRST_DMA_CHANNEL}

DmaHwIdle == [read_addr |-> NULL, trans_count |-> 0, busy |-> FALSE]

\* the parameter check at the top of ili9488_hal_write_data_dma
DmaParamsValid(data, len) == ~(data = NULL \/ len = 0)

\* a set-up made on every call, whether a channel is held or not
DmaClaimEveryCall(hw, ch) ==
    << <<"dma_claim", ch>>, <<"dma_set_irq0_enabled", ch>>,
       <<"irq_set_exclusive_handler", "dma_complete_handler">>,
       <<"irq_set_enabled", "DMA_IRQ_0">>,
       <<"dma_channel_configure", ch, hw.spi>> >>

\* the lazy channel set-up: ch is the channel dma_claim_unused_channel gives
DmaLazyClaim(hw, ch) ==
    IF dma_channel = NO_CHANNEL
    THEN << <<"dma_claim", ch>>, <<"dma_set_irq0_enabled", ch>>,
            <<"irq_set_exclusive_handler", "dma_complete_handler">>,
            <<"irq_set_enabled", "DMA_IRQ_0">>,
            <<"dma_channel_configure", ch, hw.spi>> >>
    ELSE <<>>

DmaChannelAfterClaim(ch) ==
    IF dma_channel = NO_CHANNEL THEN ch ELSE dma_channel

\* a refusal that never happens: the check of dma_busy left out
DmaRefused_unchecked == FALSE

\* whether a call with valid parameters is refused: the check of dma_busy
DmaRefused == dma_busy

\* what a call that returns early leaves: nothing changed but the events
DmaNotStarted(channel, events) ==
    [ret |-> FALSE, channel |-> channel, busy |-> dma_busy, hwreg |-> dma_hw,
     events |-> events]

\* arming the channel: D/C to data, chip-select low, source, count, start
DmaArm(hw, channel, data, len) ==
    << ili9488_hal_dc(hw, 1), ili9488_hal_cs(hw, 0),
       <<"dma_set_read_addr", channel, data>>,
       <<"dma_set_trans_count", channel, len>>,
       <<"dma_channel_start", channel>> >>

DmaStarted(hw, data, len, ch) ==
    [ret |-> TRUE, channel |-> DmaChannelAfterClaim(ch), busy |-> TRUE,
     hwreg |-> [read_addr |-> data, trans_count |-> len, busy |-> TRUE],
     events |-> DmaLazyClaim(hw, ch)
                \o DmaArm(hw, DmaChannelAfterClaim(ch), data, len)]

\* a refusal that resets the flag, so that the next call goes through
hal_write_data_dma_refusal_clears_flag(hw, data, len, ch) ==
    IF ~DmaParamsValid(data, len) THEN DmaNotStarted(dma_channel, <<>>)
    ELSE IF DmaRefused
    THEN [DmaNotStarted(DmaChannelAfterClaim(ch), DmaLazyClaim(hw, ch))
          EXCEPT !.busy = FALSE]
    ELSE DmaStarted(hw, data, len, ch)

\* the lines driven before the flag is looked at
hal_write_data_dma_lines_before_check(hw, data, len, ch) ==
    IF ~DmaParamsValid(data, len) THEN DmaNotStarted(dma_channel, <<>>)
    ELSE IF DmaRefused
    THEN DmaNotStarted(DmaChannelAfterClaim(ch),
                       DmaLazyClaim(hw, ch)
                       \o << ili9488_hal_dc(hw, 1), ili9488_hal_cs(hw, 0) >>)
    ELSE DmaStarted(hw, data, len, ch)

\* the whole of ili9488_hal_write_data_dma: what it returns, the state it
\* leaves and what it does.  Parameter check, lazy claim, busy check, arm.
ili9488_hal_write_data_dma(hw, data, len, ch) ==
    IF ~DmaParamsValid(data, len) THEN DmaNotStarted(dma_channel, <<>>)
    ELSE IF DmaRefused
    THEN DmaNotStarted(DmaChannelAfterClaim(ch), DmaLazyClaim(hw, ch))
    ELSE DmaStarted(hw, data, len, ch)

\* a handler that acknowledges and leaves chip-select asserted
handler_keeps_chip_select(hw) ==
    << <<"dma_acknowledge_irq0", dma_channel>> >>

\* a handler that also puts D/C back to command
handler_resets_dc(hw) ==
    << ili9488_hal_cs(hw, 1), ili9488_hal_dc(hw, 0),
       <<"dma_acknowledge_irq0", dma_channel>> >>

\* what the completion handler does to the outside world, in order
dma_complete_handler_events(hw) ==
    << ili9488_hal_cs(hw, 1), <<"dma_acknowledge_irq0", dma_channel>> >>

\* a handler that releases chip-select and acknowledges, and leaves the flag
handler_leaves_flag_set == dma_busy

\* the value the completion handler stores in dma_busy
dma_complete_handler_busy == FALSE

\* the flag read the way the header words it ("whether transfer is complete")
hal_is_dma_busy_as_complete == ~dma_busy

ili9488_hal_is_dma_busy == dma_busy

(***************************************************************************)
(* Addressing engine.                                                      *)
(***************************************************************************)
RECURSIVE WriteDataBytes(_, _)
WriteDataBytes(hw, bytes) ==
    IF bytes = <<>> THEN <<>>
    ELSE ili9488_hal_write_data(hw, Head(bytes)) \o WriteDataBytes(hw, Tail(bytes))

VcomTable == <<0, 54, 128>>
PositiveGamma == <<240, 1, 6, 15, 18, 29, 54, 84, 68, 12, 24, 22, 19, 21>>
NegativeGamma == <<240, 1, 5, 10, 11, 7, 50, 68, 68, 12, 24, 23, 19, 22>>

ili9488_init_sequence(hw) ==
    ili9488_hal_write_cmd(hw, ILI9488_SWRESET) \o <<ili9488_hal_delay_ms(200)>>
    \o ili9488_hal_write_cmd(hw, ILI9488_SLPOUT) \o <<ili9488_hal_delay_ms(200)>>
    \o ili9488_hal_write_cmd(hw, ILI9488_MADCTL)
    \o ili9488_hal_write_data(hw, MADCTL_DEFAULT)
    \o ili9488_hal_write_cmd(hw, ILI9488_PIXFMT)
    \o ili9488_hal_write_data(hw, PIXFMT_18BIT)
    \o ili9488_hal_write_cmd(hw, ILI9488_VCOM) \o WriteDataBytes(hw, VcomTable)
    \o ili9488_hal_write_cmd(hw, ILI9488_PWCTRL3) \o WriteDataBytes(hw, <<167>>)
    \o ili9488_hal_write_cmd(hw, ILI9488_PGAMCTRL)
    \o WriteDataBytes(hw, PositiveGamma)
    \o ili9488_hal_write_cmd(hw, ILI9488_NGAMCTRL)
    \o WriteDataBytes(hw, NegativeGamma)
    \o ili9488_hal_write_cmd(hw, ILI9488_INVON)
    \o ili9488_hal_write_cmd(hw, ILI9488_DISPON)
    \o <<ili9488_hal_delay_ms(50)>>

\* the legacy engine's lookup table, indexed by rotation (0..3)
ili9488_rotation_map == <<72, 40, 136, 232>>

\* a rotation switch with the mirror bits of the two portrait cases exchanged
RotationMadctl_mirrors_exchanged(rotation) ==
    CASE rotation % 4 = 0 -> ILI9488_MADCTL_MY + ILI9488_MADCTL_BGR
      [] rotation % 4 = 1 -> ILI9488_MADCTL_MV + ILI9488_MADCTL_BGR
      [] rotation % 4 = 2 -> ILI9488_MADCTL_MX + ILI9488_MADCTL_BGR
      [] rotation % 4 = 3 -> ILI9488_MADCTL_MX + ILI9488_MADCTL_MY
                             + ILI9488_MADCTL_MV + ILI9488_MADCTL_BGR

\* the MADCTL byte ili9488_set_rotation sends: a switch over rotation % 4 on
\* the MADCTL bit macros in the DMA-capable engine, the table in the legacy one
RotationMadctl(rotation) ==
    IF build = "dma"
    THEN CASE rotation % 4 = 0 -> ILI9488_MADCTL_MX + ILI9488_MADCTL_BGR
           [] rotation % 4 = 1 -> ILI9488_MADCTL_MV + ILI9488_MADCTL_BGR
           [] rotation % 4 = 2 -> ILI9488_MADCTL_MY + ILI9488_MADCTL_BGR
           [] rotation % 4 = 3 -> ILI9488_MADCTL_MX + ILI9488_MADCTL_MY
                                  + ILI9488_MADCTL_MV + ILI9488_MADCTL_BGR
    ELSE ili9488_rotation_map[(rotation % 4) + 1]

\* the logical size ili9488_set_rotation stores
RotationWidth(rotation) ==
    IF rotation % 4 = 1 \/ rotation % 4 = 3 THEN 480 ELSE 320
RotationHeight(rotation) ==
    IF rotation % 4 = 1 \/ rotation % 4 = 3 THEN 320 ELSE 480

\* a rotation stored as it was passed
RotationStored_unreduced(rotation) == rotation

\* the rotation ili9488_set_rotation stores
RotationStored(rotation) == rotation % 4

\* a rotation that also puts the controller back into normal display mode
set_rotation_returns_to_normal(hw, rotation) ==
    ili9488_hal_write_cmd(hw, ILI9488_NORON)
    \o ili9488_hal_write_cmd(hw, ILI9488_MADCTL)
    \o ili9488_hal_write_data(hw, RotationMadctl(rotation))

ili9488_set_rotation_events(hw, rotation) ==
    ili9488_hal_write_cmd(hw, ILI9488_MADCTL)
    \o ili9488_hal_write_data(hw, RotationMadctl(rotation))

ili9488_set_rotation_state(st, rotation) ==
    [st EXCEPT !.rotation = RotationStored(rotation),
               !.width = RotationWidth(rotation),
               !.height = RotationHeight(rotation)]

\* an init that tests the config pointer before the initialized flag
init_ret_null_tested_first(st, config_ok) ==
    IF ~config_ok THEN FALSE ELSE TRUE

\* ili9488_init: config_ok says the pointer is not NULL, size and rotation
\* are the fields of the config.  The early returns of the code, in order.
ili9488_init_ret(st, config_ok) ==
    IF st.is_initialized THEN TRUE
    ELSE IF ~config_ok THEN FALSE
    ELSE ili9488_hal_init_ret(TRUE)

\* an init that runs the command sequence before it pulses the reset line
init_events_reset_after_sequence(st, hw, config_ok, rotation) ==
    IF st.is_initialized \/ ~config_ok THEN <<>>
    ELSE LET hw1 == ili9488_hal_init_config(hw, TRUE)
         IN ili9488_hal_init_events(hw, TRUE)
            \o ili9488_init_sequence(hw1)
            \o ili9488_hal_reset(hw1)
            \o ili9488_set_rotation_events(hw1, rotation)

ili9488_init_events(st, hw, config_ok, rotation) ==
    IF st.is_initialized \/ ~config_ok THEN <<>>
    ELSE LET hw1 == ili9488_hal_init_config(hw, TRUE)
         IN ili9488_hal_init_events(hw, TRUE)
            \o ili9488_hal_reset(hw1)
            \o ili9488_init_sequence(hw1)
            \o ili9488_set_rotation_events(hw1, rotation)

\* an init that sets the initialized flag before it looks at the config
init_state_flag_set_early(st, config_ok, size, rotation) ==
    IF st.is_initialized THEN st
    ELSE IF ~config_ok THEN [st EXCEPT !.is_initialized = TRUE]
    ELSE [ili9488_set_rotation_state(
              [st EXCEPT !.width = size[1], !.height = size[2],
                         !.rotation = rotation], rotation)
          EXCEPT !.is_initialized = TRUE]

ili9488_init_state(st, config_ok, size, rotation) ==
    IF st.is_initialized \/ ~config_ok THEN st
    ELSE [ili9488_set_rotation_state(
              [st EXCEPT !.width = size[1], !.height = size[2],
                         !.rotation = rotation], rotation)
          EXCEPT !.is_initialized = TRUE]

ili9488_init_hw(st, hw, config_ok) ==
    IF st.is_initialized \/ ~config_ok THEN hw
    ELSE ili9488_hal_init_config(hw, TRUE)

(***************************************************************************)
(* Addressing engine: windows, colours and pixel streams.                  *)
(***************************************************************************)
\* x >> 8 and x & 0xFF of a uint16_t, as the uint8_t argument they become
HighByte(x) == (x \div 256) % 256
LowByte(x) == x % 256

\* a window that sends the row bounds before the column bounds
set_window_rows_first(hw, x0, y0, x1, y1) ==
    ili9488_hal_write_cmd(hw, ILI9488_PASET)
    \o WriteDataBytes(hw, << HighByte(y0), LowByte(y0),
                             HighByte(y1), LowByte(y1) >>)
    \o ili9488_hal_write_cmd(hw, ILI9488_CASET)
    \o WriteDataBytes(hw, << HighByte(x0), LowByte(x0),
                             HighByte(x1), LowByte(x1) >>)
    \o ili9488_hal_write_cmd(hw, ILI9488_RAMWR)

ili9488_set_window(hw, x0, y0, x1, y1) ==
    ili9488_hal_write_cmd(hw, ILI9488_CASET)
    \o WriteDataBytes(hw, << HighByte(x0), LowByte(x0),
                             HighByte(x1), LowByte(x1) >>)
    \o ili9488_hal_write_cmd(hw, ILI9488_PASET)
    \o WriteDataBytes(hw, << HighByte(y0), LowByte(y0),
                             HighByte(y1), LowByte(y1) >>)
    \o ili9488_hal_write_cmd(hw, ILI9488_RAMWR)

\* the 5-bit channels widened by a plain shift, the low bit left 0
rgb565_to_rgb666_shift_only(color) ==
    LET r == (color \div 2048) % 32
        g == (color \div 32) % 64
        b == color % 32
    IN << (2 * r) % 256, g, (2 * b) % 256 >>

\* red taken from the low field and blue from the high one
rgb565_to_rgb666_bgr(color) ==
    LET r == color % 32
        g == (color \div 32) % 64
        b == (color \div 2048) % 32
    IN << (2 * r + r \div 16) % 256, g, (2 * b + b \div 16) % 256 >>

\* the 5-bit channels are widened by (v << 1) | (v >> 4); v << 1 is even and
\* v >> 4 is 0 or 1, so the OR is their sum
rgb565_to_rgb666(color) ==
    LET r == (color \div 2048) % 32
        g == (color \div 32) % 64
        b == color % 32
    IN << (2 * r + r \div 16) % 256, g, (2 * b + b \div 16) % 256 >>

\* the DMA-capable engine passes the three bytes of the colour on as they
\* are; the legacy engine shifts each right by two
rgb24_to_rgb666(color24) ==
    LET r == (color24 \div 65536) % 256
        g == (color24 \div 256) % 256
        b == color24 % 256
    IN IF build = "dma" THEN <<r, g, b>>
       ELSE << r \div 4, g \div 4, b \div 4 >>

\* a 6-bit channel widened to 8 bits by replicating its top bits, so that
\* 0x3F widens to 0xFF
Widen6To8(c) == (4 * c + c \div 16) % 256
rgb666_to_rgb888(rgb) == << Widen6To8(rgb[1]), Widen6To8(rgb[2]),
                            Widen6To8(rgb[3]) >>

\* a buffer on the stack of the engine: a pointer that is not NULL
LocalBuffer == 1

\* n pixels, pixel k (0-based) being the three bytes px[k], written in
\* batches of at most B pixels, one ili9488_hal_write_data_buffer per batch
WriteBatches(hw, n, B, px) ==
    LET nb == (n + B - 1) \div B
        Size(j) == IF j * B <= n THEN B ELSE n - (j - 1) * B
        Bytes(j) == [t \in 1..(3 * Size(j)) |->
                        px[B * (j - 1) + (t - 1) \div 3][((t - 1) % 3) + 1]]
        Ev(j) == ili9488_hal_write_data_buffer(hw, LocalBuffer, Bytes(j),
                                               3 * Size(j))
        batches == [j \in 1..nb |-> Ev(j)] \o <<>>
        per == IF nb = 0 THEN 0 ELSE Len(batches[1])
    IN [i \in 1..(nb * per) |->
           batches[(i - 1) \div per + 1][((i - 1) % per) + 1]] \o <<>>

\* a pixel count that leaves out the last column and the last row
PixelCount_exclusive(x0, y0, x1, y1) ==
    LET p == (x1 - x0) * (y1 - y0)
    IN [hi |-> (p \div 65536) % 65536, lo |-> p % 65536]

\* (uint32_t)(x1 - x0 + 1) * (y1 - y0 + 1): the product of the two int
\* differences modulo 2^32, held as its two 16-bit halves
PixelCount(x0, y0, x1, y1) ==
    LET p == (x1 - x0 + 1) * (y1 - y0 + 1)
    IN [hi |-> (p \div 65536) % 65536, lo |-> p % 65536]

\* comparisons of such a count with a number below 2^16
Exceeds(n, m) == n.hi > 0 \/ n.lo > m

\* the pixels of a stream of n the model follows: all of them, or none when
\* there are more than MaxPixels; the call is then recorded as unfinished
Followed(n, B) == IF Exceeds(n, MaxPixels) THEN 0 ELSE n.lo
StreamRet(n) == IF Exceeds(n, MaxPixels) THEN "unfinished" ELSE "void"

\* a bounds check that lets the first position past each edge through
OutOfBounds_past_the_edge(st, x, y) == x > st.width \/ y > st.height

OutOfBounds(st, x, y) == x >= st.width \/ y >= st.height

ili9488_draw_pixel(st, hw, x, y, color) ==
    IF OutOfBounds(st, x, y) THEN <<>>
    ELSE ili9488_set_window(hw, x, y, x, y)
         \o ili9488_hal_write_data_buffer(hw, LocalBuffer,
                                          rgb565_to_rgb666(color), 3)

ili9488_draw_pixel_rgb24(st, hw, x, y, color24) ==
    IF OutOfBounds(st, x, y) THEN <<>>
    ELSE ili9488_set_window(hw, x, y, x, y)
         \o ili9488_hal_write_data_buffer(hw, LocalBuffer,
                                          rgb24_to_rgb666(color24), 3)

\* a lower corner taken as passed, without the swap
Lo_as_passed(a, b) == a

\* the corners after the two swaps of the fill operations
Lo(a, b) == IF a > b THEN b ELSE a
Hi(a, b) == IF a > b THEN a ELSE b

\* ili9488_fill_area: no bounds check; at most 256 pixels go out one write
\* each, more go out in batches of 256
FillBatch(total) == IF ~Exceeds(total, 256) THEN 1 ELSE 256

ili9488_fill_area_ret(x0, y0, x1, y1) ==
    StreamRet(PixelCount(Lo(x0, x1), Lo(y0, y1), Hi(x0, x1), Hi(y0, y1)))

\* a fill whose every batch, the last one too, is the whole buffer
fill_area_whole_buffer_each_batch(hw, x0, y0, x1, y1, color) ==
    LET xa == IF x0 > x1 THEN x1 ELSE x0
        xb == IF x0 > x1 THEN x0 ELSE x1
        ya == IF y0 > y1 THEN y1 ELSE y0
        yb == IF y0 > y1 THEN y0 ELSE y1
        total == PixelCount(xa, ya, xb, yb)
        B == FillBatch(total)
        n == ((Followed(total, B) + B - 1) \div B) * B
    IN ili9488_set_window(hw, xa, ya, xb, yb)
       \o WriteBatches(hw, n, B, [k \in Nat |-> rgb565_to_rgb666(color)])

ili9488_fill_area(hw, x0, y0, x1, y1, color) ==
    LET xa == Lo(x0, x1)
        xb == Hi(x0, x1)
        ya == Lo(y0, y1)
        yb == Hi(y0, y1)
        total == PixelCount(xa, ya, xb, yb)
        rgb == rgb565_to_rgb666(color)
    IN ili9488_set_window(hw, xa, ya, xb, yb)
       \o WriteBatches(hw, Followed(total, FillBatch(total)),
                       FillBatch(total), [k \in Nat |-> rgb])

\* ili9488_fill_area_rgb24: bounds check on both corners, batches of 128
ili9488_fill_area_rgb24_ret(st, x0, y0, x1, y1) ==
    IF OutOfBounds(st, x0, y0) \/ OutOfBounds(st, x1, y1) THEN "void"
    ELSE StreamRet(PixelCount(Lo(x0, x1), Lo(y0, y1), Hi(x0, x1), Hi(y0, y1)))

ili9488_fill_area_rgb24(st, hw, x0, y0, x1, y1, color24) ==
    IF OutOfBounds(st, x0, y0) \/ OutOfBounds(st, x1, y1) THEN <<>>
    ELSE LET xa == Lo(x0, x1)
             xb == Hi(x0, x1)
             ya == Lo(y0, y1)
             yb == Hi(y0, y1)
             num_pixels == PixelCount(xa, ya, xb, yb)
             rgb == rgb24_to_rgb666(color24)
         IN ili9488_set_window(hw, xa, ya, xb, yb)
            \o WriteBatches(hw, Followed(num_pixels, 128), 128,
                            [k \in Nat |-> rgb])

\* ili9488_fill_screen.  The DMA-capable engine hands the whole display to
\* ili9488_fill_area, the legacy engine sets the window and writes
\* width * height pixels one by one.  width - 1 and height - 1 are passed as
\* uint16_t, 65535 on a driver that has no size yet.
ScreenCorner(side) == (side - 1) % 65536

\* on a driver without a size the DMA-capable engine multiplies 65536 by
\* 65536 in int, which is undefined
FillScreenOverflows(st) == build = "dma" /\ (st.width = 0 \/ st.height = 0)

ScreenPixels(st) ==
    LET p == st.width * st.height
    IN [hi |-> (p \div 65536) % 65536, lo |-> p % 65536]

\* the returns the model records: void, unfinished for a stream too long to
\* follow, either when the pixel count is undefined
ili9488_fill_screen_rets(st) ==
    IF FillScreenOverflows(st) THEN {"void", "unfinished"}
    ELSE IF build = "dma"
    THEN {ili9488_fill_area_ret(0, 0, ScreenCorner(st.width),
                                ScreenCorner(st.height))}
    ELSE {StreamRet(ScreenPixels(st))}

ili9488_fill_screen(st, hw, color) ==
    IF FillScreenOverflows(st)
    THEN ili9488_set_window(hw, 0, 0, ScreenCorner(st.width),
                            ScreenCorner(st.height))
    ELSE IF build = "dma"
    THEN ili9488_fill_area(hw, 0, 0, ScreenCorner(st.width),
                           ScreenCorner(st.height), color)
    ELSE ili9488_set_window(hw, 0, 0, ScreenCorner(st.width),
                            ScreenCorner(st.height))
         \o WriteBatches(hw, Followed(ScreenPixels(st), 1), 1,
                         [k \in Nat |-> rgb565_to_rgb666(color)])

\* ili9488_fill_screen_rgb24.  The DMA-capable engine hands the whole
\* display to ili9488_fill_area_rgb24, which checks both corners against
\* the size; the legacy engine sets the window and writes width * height
\* pixels one by one.
ili9488_fill_screen_rgb24_ret(st) ==
    IF build = "dma"
    THEN ili9488_fill_area_rgb24_ret(st, 0, 0, ScreenCorner(st.width),
                                     ScreenCorner(st.height))
    ELSE StreamRet(ScreenPixels(st))

ili9488_fill_screen_rgb24(st, hw, color24) ==
    IF build = "dma"
    THEN ili9488_fill_area_rgb24(st, hw, 0, 0, ScreenCorner(st.width),
                                 ScreenCorner(st.height), color24)
    ELSE ili9488_set_window(hw, 0, 0, ScreenCorner(st.width),
                            ScreenCorner(st.height))
         \o WriteBatches(hw, Followed(ScreenPixels(st), 1), 1,
                         [k \in Nat |-> rgb24_to_rgb666(color24)])

\* ili9488_partial_mode: one mode command and a delay of 10 ms
ili9488_partial_mode(hw, enable) ==
    ili9488_hal_write_cmd(hw, IF enable THEN ILI9488_PTLON
                              ELSE ILI9488_NORON)
    \o <<ili9488_hal_delay_ms(10)>>

\* a partial area that is sent whatever its bounds are
partial_area_rejects_nothing(st, x0, y0, x1, y1) == FALSE

\* ili9488_set_partial_area: returns when a bound is outside the display,
\* swaps reversed bounds, and sends the rows with ILI9488_PTLAR
PartialAreaRejected(st, x0, y0, x1, y1) ==
    \/ x0 >= st.width \/ y0 >= st.height
    \/ x1 >= st.width \/ y1 >= st.height

ili9488_set_partial_area(st, hw, x0, y0, x1, y1) ==
    IF PartialAreaRejected(st, x0, y0, x1, y1) THEN <<>>
    ELSE LET ya == Lo(y0, y1)
             yb == Hi(y0, y1)
         IN ili9488_hal_write_cmd(hw, ILI9488_PTLAR)
            \o WriteDataBytes(hw, << HighByte(ya), LowByte(ya),
                                     HighByte(yb), LowByte(yb) >>)

\* a colour index that starts again at 0 with every batch of 32
ColorIdx_restarts_each_batch(k, len) == (k % 32) % len

\* color_idx when pixel k (0-based) is read: it starts at 0 and goes to
\* (color_idx + 1) % len after every pixel, across batches
ColorIdx(k, len) == k % len

\* ili9488_write_pixels / _rgb24: the corners are used as passed, batches of
\* 32 pixels
ili9488_write_pixels_ret(x0, y0, x1, y1, colors, len) ==
    IF colors = NULL \/ len = 0 THEN "void"
    ELSE StreamRet(PixelCount(x0, y0, x1, y1))

ili9488_write_pixels(hw, x0, y0, x1, y1, colors, len) ==
    IF colors = NULL \/ len = 0 THEN <<>>
    ELSE LET area_pixels == PixelCount(x0, y0, x1, y1)
         IN ili9488_set_window(hw, x0, y0, x1, y1)
            \o WriteBatches(hw, Followed(area_pixels, 32), 32,
                  [k \in Nat |-> rgb565_to_rgb666(
                                     Color565At(colors, ColorIdx(k, len)))])

ili9488_write_pixels_rgb24(hw, x0, y0, x1, y1, colors, len) ==
    IF colors = NULL \/ len = 0 THEN <<>>
    ELSE LET area_pixels == PixelCount(x0, y0, x1, y1)
         IN ili9488_set_window(hw, x0, y0, x1, y1)
            \o WriteBatches(hw, Followed(area_pixels, 32), 32,
                  [k \in Nat |-> rgb24_to_rgb666(
                                     Color24At(colors, ColorIdx(k, len)))])

(***************************************************************************)
(* The state machine.                                                      *)
(***************************************************************************)
BoolStr(b) == IF b THEN "true" ELSE "false"

\* the controller out of reset: normal display mode, no partial area given
PanelReset == [partial |-> FALSE, rows |-> <<>>]

\* the level of the D/C line when event i of b happens: the last write to
\* PIN_DC before i in b, -1 when b has none
RECURSIVE DcBefore(_, _)
DcBefore(b, i) ==
    IF i <= 1 THEN -1
    ELSE IF WritesPin(b[i - 1], PIN_DC) THEN b[i - 1][3]
    ELSE DcBefore(b, i - 1)

\* event i of b clocks the one byte cmd to the panel as a command
SendsCmd(b, i, cmd) ==
    /\ IsSpi(b[i]) /\ b[i][2] # NULL
    /\ b[i][3] = <<cmd>>
    /\ DcBefore(b, i) = 0

\* the first data bytes clocked out after the command at i, one per
\* ili9488_hal_write_data, up to the next command
RECURSIVE ParamsAfter(_, _)
ParamsAfter(b, i) ==
    IF i + 3 > Len(b) THEN <<>>
    ELSE IF IsSpi(b[i + 3]) /\ DcBefore(b, i + 3) = 1
    THEN b[i + 3][3] \o ParamsAfter(b, i + 4)
    ELSE <<>>

\* the display mode after event i of b
PanelOn(p, b, i) ==
    IF b[i] = gpio_put(PIN_RESET, 0) \/ SendsCmd(b, i, ILI9488_SWRESET)
    THEN PanelReset
    ELSE IF SendsCmd(b, i, ILI9488_PTLON) THEN [p EXCEPT !.partial = TRUE]
    ELSE IF SendsCmd(b, i, ILI9488_NORON) THEN [p EXCEPT !.partial = FALSE]
    ELSE IF SendsCmd(b, i, ILI9488_PTLAR)
    THEN LET d == ParamsAfter(b, i + 1)
         IN IF Len(d) < 4 THEN p
            ELSE [p EXCEPT !.rows = <<256 * d[1] + d[2], 256 * d[3] + d[4]>>]
    ELSE p

\* the display mode after the events of b, in order
RECURSIVE PanelFold(_, _, _)
PanelFold(p, b, at) ==
    IF at = <<>> THEN p
    ELSE PanelFold(PanelOn(p, b, Head(at)), b, Tail(at))

PanelAfter(p, b) ==
    LET Tells(i) ==
            \/ b[i] = gpio_put(PIN_RESET, 0)
            \/ \E c \in {ILI9488_SWRESET, ILI9488_PTLON, ILI9488_NORON,
                          ILI9488_PTLAR} : SendsCmd(b, i, c)
    IN PanelFold(p, b, SelectSeq([i \in 1..Len(b) |-> i], Tells))

Init ==
    /\ build \in Builds
    /\ ili9488 = [is_initialized |-> FALSE, width |-> 0, height |-> 0,
                  rotation |-> 0]
    /\ hw_config = ZeroHwConfig
    /\ gpio = [p \in Pins |-> 0]
    /\ dma_channel = NO_CHANNEL
    /\ dma_busy = FALSE
    /\ dma_hw = DmaHwIdle
    /\ pc = "ready"
    /\ halted = FALSE
    /\ bus = <<>>
    /\ last = [op |-> "boot", arg |-> <<>>, ret |-> "void"]
    /\ panel = PanelReset

\* the position of the first SPI transfer on the NULL instance, 0 if none
IsNullSpi(e) == IsSpi(e) /\ e[2] = NULL
FaultAt(events) ==
    IF hw_config.spi # NULL THEN 0
    ELSE IF \A i \in 1..Len(events) : ~IsNullSpi(events[i]) THEN 0
    ELSE CHOOSE i \in 1..Len(events) :
            /\ IsNullSpi(events[i])
            /\ \A j \in 1..(i - 1) : ~IsNullSpi(events[j])

\* the outside-world part of every step: events is what the call does when
\* it runs to its end
Step(op, arg, ret, events) ==
    /\ halted' \in (IF FaultAt(events) > 0 THEN BOOLEAN ELSE {FALSE})
    /\ bus' = IF halted' THEN SubSeq(events, 1, FaultAt(events)) ELSE events
    /\ gpio' = ApplyGpio(gpio, bus')
    /\ last' = [op |-> op, arg |-> arg, ret |-> IF halted' THEN "fault" ELSE ret]

MainLine == pc = "ready" /\ ~halted

Call_ili9488_init(config_ok, size, rotation) ==
    /\ MainLine
    /\ ili9488' = ili9488_init_state(ili9488, config_ok, size, rotation)
    /\ hw_config' = ili9488_init_hw(ili9488, hw_config, config_ok)
    /\ Step("ili9488_init",
            <<IF config_ok THEN 1 ELSE 0, size[1], size[2], rotation>>,
            BoolStr(ili9488_init_ret(ili9488, config_ok)),
            ili9488_init_events(ili9488, hw_config, config_ok, rotation))
    /\ UNCHANGED <<build, dma_channel, dma_busy, dma_hw, pc>>
    /\ panel' = PanelAfter(panel, bus')

Call_ili9488_hal_init(config_ok) ==
    /\ MainLine
    /\ hw_config' = ili9488_hal_init_config(hw_config, config_ok)
    /\ Step("ili9488_hal_init", <<IF config_ok THEN 1 ELSE 0>>,
            BoolStr(ili9488_hal_init_ret(config_ok)),
            ili9488_hal_init_events(hw_config, config_ok))
    /\ UNCHANGED <<build, ili9488, dma_channel, dma_busy, dma_hw, pc>>
    /\ panel' = PanelAfter(panel, bus')

Call_ili9488_hal_reset ==
    /\ MainLine
    /\ Step("ili9488_hal_reset", <<>>, "void", ili9488_hal_reset(hw_config))
    /\ UNCHANGED <<build, ili9488, hw_config, dma_channel, dma_busy, dma_hw, pc>>
    /\ panel' = PanelAfter(panel, bus')

Call_ili9488_set_rotation(rotation) ==
    /\ MainLine
    /\ ili9488' = ili9488_set_rotation_state(ili9488, rotation)
    /\ Step("ili9488_set_rotation", <<rotation>>, "void",
            ili9488_set_rotation_events(hw_config, rotation))
    /\ UNCHANGED <<build, hw_config, dma_channel, dma_busy, dma_hw, pc>>
    /\ panel' = PanelAfter(panel, bus')

Call_ili9488_hal_write_cmd(cmd) ==
    /\ MainLine
    /\ Step("ili9488_hal_write_cmd", <<cmd>>, "void",
            ili9488_hal_write_cmd(hw_config, cmd))
    /\ UNCHANGED <<build, ili9488, hw_config, dma_channel, dma_busy, dma_hw, pc>>
    /\ panel' = PanelAfter(panel, bus')

Call_ili9488_hal_write_data(data) ==
    /\ MainLine
    /\ Step("ili9488_hal_write_data", <<data>>, "void",
            ili9488_hal_write_data(hw_config, data))
    /\ UNCHANGED <<build, ili9488, hw_config, dma_channel, dma_busy, dma_hw, pc>>
    /\ panel' = PanelAfter(panel, bus')

Call_ili9488_hal_write_data_buffer(data, len) ==
    /\ MainLine
    /\ Step("ili9488_hal_write_data_buffer", <<data, len>>, "void",
            ili9488_hal_write_data_buffer(hw_config, data,
                                          BufBytes(data, len), len))
    /\ UNCHANGED <<build, ili9488, hw_config, dma_channel, dma_busy, dma_hw, pc>>
    /\ panel' = PanelAfter(panel, bus')

Call_ili9488_hal_set_backlight(on) ==
    /\ MainLine
    /\ Step("ili9488_hal_set_backlight", <<on>>, "void",
            ili9488_hal_set_backlight(hw_config, on))
    /\ UNCHANGED <<build, ili9488, hw_config, dma_channel, dma_busy, dma_hw, pc>>
    /\ panel' = PanelAfter(panel, bus')

\* a transfer is started only on a configured transport: the DREQ and the
\* target register of the channel come from hw_config.spi
DmaCallable(data, len) ==
    /\ build = "dma"
    /\ DmaParamsValid(data, len) => hw_config.spi # NULL

Call_ili9488_hal_write_data_dma(data, len) ==
    /\ MainLine
    /\ DmaCallable(data, len)
    /\ \E ch \in DmaChannels :
          LET r == ili9488_hal_write_data_dma(hw_config, data, len, ch)
          IN /\ dma_channel' = r.channel
             /\ dma_busy' = r.busy
             /\ dma_hw' = r.hwreg
             /\ Step("ili9488_hal_write_data_dma", <<data, len>>,
                     BoolStr(r.ret), r.events)
    /\ UNCHANGED <<build, ili9488, hw_config, pc>>
    /\ panel' = PanelAfter(panel, bus')

\* an engine entry that writes the buffer synchronously when the start fails
write_data_dma_with_fallback(hw, data, len, ch) ==
    IF data = NULL \/ len = 0 THEN DmaNotStarted(dma_channel, <<>>)
    ELSE LET r == ili9488_hal_write_data_dma(hw, data, len, ch)
         IN [r EXCEPT !.events =
                <<ili9488_hal_dc(hw, 1)>> \o r.events
                \o (IF r.ret THEN <<>>
                    ELSE ili9488_hal_write_data_buffer(
                             hw, data, BufBytes(data, len), len))]

\* the engine's entry: its own parameter check, D/C to data, then the HAL
ili9488_write_data_dma(hw, data, len, ch) ==
    IF data = NULL \/ len = 0
    THEN [ret |-> FALSE, channel |-> dma_channel, busy |-> dma_busy,
          hwreg |-> dma_hw, events |-> <<>>]
    ELSE LET r == ili9488_hal_write_data_dma(hw, data, len, ch)
         IN [r EXCEPT !.events = <<ili9488_hal_dc(hw, 1)>> \o r.events]

Call_ili9488_write_data_dma(data, len) ==
    /\ MainLine
    /\ DmaCallable(data, len)
    /\ \E ch \in DmaChannels :
          LET r == ili9488_write_data_dma(hw_config, data, len, ch)
          IN /\ dma_channel' = r.channel
             /\ dma_busy' = r.busy
             /\ dma_hw' = r.hwreg
             /\ Step("ili9488_write_data_dma", <<data, len>>,
                     BoolStr(r.ret), r.events)
    /\ UNCHANGED <<build, ili9488, hw_config, pc>>
    /\ panel' = PanelAfter(panel, bus')

Call_ili9488_hal_is_dma_busy ==
    /\ MainLine
    /\ build = "dma"
    /\ Step("ili9488_hal_is_dma_busy", <<>>, BoolStr(ili9488_hal_is_dma_busy),
            <<>>)
    /\ UNCHANGED <<build, ili9488, hw_config, dma_channel, dma_busy, dma_hw, pc>>
    /\ panel' = PanelAfter(panel, bus')

\* ili9488_hal_wait_dma_idle: the loop condition is read on entry and again
\* on every turn of the loop
Call_ili9488_hal_wait_dma_idle ==
    /\ MainLine
    /\ build = "dma"
    /\ pc' = IF dma_busy THEN "wait_dma_idle" ELSE "ready"
    /\ Step("ili9488_hal_wait_dma_idle", <<>>,
            IF dma_busy THEN "spinning" ELSE "void", <<>>)
    /\ UNCHANGED <<build, ili9488, hw_config, dma_channel, dma_busy, dma_hw>>
    /\ panel' = PanelAfter(panel, bus')

\* one turn of the loop with the flag still set: tight_loop_contents()
WaitDmaIdleSpin ==
    /\ pc = "wait_dma_idle" /\ ~halted
    /\ dma_busy
    /\ UNCHANGED vars

\* the loop sees the flag clear and the call returns
WaitDmaIdleReturn ==
    /\ pc = "wait_dma_idle" /\ ~halted
    /\ ~dma_busy
    /\ pc' = "ready"
    /\ Step("ili9488_hal_wait_dma_idle", <<>>, "void", <<>>)
    /\ UNCHANGED <<build, ili9488, hw_config, dma_channel, dma_busy, dma_hw>>
    /\ panel' = PanelAfter(panel, bus')

\* the hardware finishes the transfer (its count has run down to 0) and
\* raises DMA_IRQ_0; the handler runs to its end on the one core, whatever
\* the main line is doing
dma_complete_handler ==
    /\ ~halted
    /\ dma_hw.busy
    /\ dma_hw' = [dma_hw EXCEPT !.busy = FALSE, !.trans_count = 0]
    /\ dma_busy' = dma_complete_handler_busy
    /\ Step("dma_complete_handler", <<>>, "void",
            dma_complete_handler_events(hw_config))
    /\ UNCHANGED <<build, ili9488, hw_config, dma_channel, pc>>
    /\ panel' = PanelAfter(panel, bus')

\* the drawing calls: they write to the bus and change no variable of the
\* driver
Draws(op, arg, ret, events) ==
    /\ MainLine
    /\ Step(op, arg, ret, events)
    /\ UNCHANGED <<build, ili9488, hw_config, dma_channel, dma_busy, dma_hw,
                   pc, panel>>

Call_ili9488_set_window(x0, y0, x1, y1) ==
    Draws("ili9488_set_window", <<x0, y0, x1, y1>>, "void",
          ili9488_set_window(hw_config, x0, y0, x1, y1))

Call_ili9488_draw_pixel(x, y, color) ==
    Draws("ili9488_draw_pixel", <<x, y, color>>, "void",
          ili9488_draw_pixel(ili9488, hw_config, x, y, color))

Call_ili9488_draw_pixel_rgb24(x, y, color24) ==
    Draws("ili9488_draw_pixel_rgb24", <<x, y, color24>>, "void",
          ili9488_draw_pixel_rgb24(ili9488, hw_config, x, y, color24))

\* the fill and pixel-array operations exist in the DMA-capable engine only
Call_ili9488_fill_area(r, color) ==
    /\ build = "dma"
    /\ Draws("ili9488_fill_area", r \o <<color>>,
             ili9488_fill_area_ret(r[1], r[2], r[3], r[4]),
             ili9488_fill_area(hw_config, r[1], r[2], r[3], r[4], color))

Call_ili9488_fill_area_rgb24(r, color24) ==
    /\ build = "dma"
    /\ Draws("ili9488_fill_area_rgb24", r \o <<color24>>,
             ili9488_fill_area_rgb24_ret(ili9488, r[1], r[2], r[3], r[4]),
             ili9488_fill_area_rgb24(ili9488, hw_config,
                                     r[1], r[2], r[3], r[4], color24))

Call_ili9488_write_pixels(r, colors, len) ==
    /\ build = "dma"
    /\ Draws("ili9488_write_pixels", r \o <<colors, len>>,
             ili9488_write_pixels_ret(r[1], r[2], r[3], r[4], colors, len),
             ili9488_write_pixels(hw_config, r[1], r[2], r[3], r[4],
                                  colors, len))

Call_ili9488_write_pixels_rgb24(r, colors, len) ==
    /\ build = "dma"
    /\ Draws("ili9488_write_pixels_rgb24", r \o <<colors, len>>,
             ili9488_write_pixels_ret(r[1], r[2], r[3], r[4], colors, len),
             ili9488_write_pixels_rgb24(hw_config, r[1], r[2], r[3], r[4],
                                        colors, len))

\* command and data bytes callers pass to the HAL directly
Call_ili9488_fill_screen(color) ==
    \E ret \in ili9488_fill_screen_rets(ili9488) :
        Draws("ili9488_fill_screen", <<color>>, ret,
              ili9488_fill_screen(ili9488, hw_config, color))

Call_ili9488_fill_screen_rgb24(color24) ==
    Draws("ili9488_fill_screen_rgb24", <<color24>>,
          ili9488_fill_screen_rgb24_ret(ili9488),
          ili9488_fill_screen_rgb24(ili9488, hw_config, color24))

\* the display mode calls exist in the DMA-capable engine only; they change
\* no variable of the driver
Call_ili9488_partial_mode(enable) ==
    /\ build = "dma"
    /\ MainLine
    /\ Step("ili9488_partial_mode", <<enable>>, "void",
            ili9488_partial_mode(hw_config, enable))
    /\ panel' = PanelAfter(panel, bus')
    /\ UNCHANGED <<build, ili9488, hw_config, dma_channel, dma_busy, dma_hw, pc>>

Call_ili9488_set_partial_area(r) ==
    /\ build = "dma"
    /\ MainLine
    /\ Step("ili9488_set_partial_area", r, "void",
            ili9488_set_partial_area(ili9488, hw_config,
                                     r[1], r[2], r[3], r[4]))
    /\ panel' = PanelAfter(panel, bus')
    /\ UNCHANGED <<build, ili9488, hw_config, dma_channel, dma_busy, dma_hw, pc>>

\* the colour conversions: they read their argument and write their three
\* results, nothing else.  last.arg is the argument followed by the results.
Converts(op, out) ==
    /\ last' = [op |-> op, arg |-> last.arg \o out, ret |-> "void"]
    /\ bus' = <<>>
    /\ UNCHANGED <<build, ili9488, hw_config, gpio, dma_channel, dma_busy,
                   dma_hw, pc, halted, panel>>

Call_rgb565_to_rgb666 ==
    /\ last.op = "color" /\ last.arg[1] \in Words565
    /\ Converts("rgb565_to_rgb666", rgb565_to_rgb666(last.arg[1]))

Call_rgb24_to_rgb666 ==
    /\ last.op = "color"
    /\ Converts("rgb24_to_rgb666", rgb24_to_rgb666(last.arg[1]))

\* the widening of what rgb565_to_rgb666 has returned
Call_rgb666_to_rgb888 ==
    /\ last.op = "rgb565_to_rgb666"
    /\ Converts("rgb666_to_rgb888", rgb666_to_rgb888(SubSeq(last.arg, 2, 4)))

DirectCmds == {ILI9488_RAMWR}
DirectData == {255}

Next ==
    \/ \E size \in CfgSizes, r \in RotArgs : Call_ili9488_init(TRUE, size, r)
    \/ Call_ili9488_init(FALSE, <<0, 0>>, 0)
    \/ \E c \in BOOLEAN : Call_ili9488_hal_init(c)
    \/ Call_ili9488_hal_reset
    \/ \E r \in RotArgs : Call_ili9488_set_rotation(r)
    \/ \E cmd \in DirectCmds : Call_ili9488_hal_write_cmd(cmd)
    \/ \E d \in DirectData : Call_ili9488_hal_write_data(d)
    \/ \E p \in Pointers, len \in Lengths :
          Call_ili9488_hal_write_data_buffer(p, len)
    \/ \E p \in Pointers, len \in Lengths :
          Call_ili9488_hal_write_data_dma(p, len)
    \/ \E p \in Pointers, len \in Lengths :
          Call_ili9488_write_data_dma(p, len)
    \/ Call_ili9488_hal_is_dma_busy
    \/ Call_ili9488_hal_wait_dma_idle
    \/ WaitDmaIdleSpin
    \/ WaitDmaIdleReturn
    \/ dma_complete_handler

Spec == Init /\ [][Next]_vars

\* the hardware transfer is of fixed length and always completes, and the
\* spinning main line keeps running
FairSpec ==
    Spec /\ WF_vars(dma_complete_handler) /\ WF_vars(WaitDmaIdleReturn)

\* the drawing interface of the engine: bring-up, rotation and the drawing
\* calls, which neither read nor write the state of the DMA path
DrawNext ==
    \/ \E size \in CfgSizes, r \in RotArgs : Call_ili9488_init(TRUE, size, r)
    \/ Call_ili9488_init(FALSE, <<0, 0>>, 0)
    \/ \E r \in RotArgs : Call_ili9488_set_rotation(r)
    \/ \E w \in WindowRects : Call_ili9488_set_window(w[1], w[2], w[3], w[4])
    \/ \E x, y \in PixelCoords, c \in Colors565 : Call_ili9488_draw_pixel(x, y, c)
    \/ \E x, y \in PixelCoords, c \in Colors24 :
          Call_ili9488_draw_pixel_rgb24(x, y, c)
    \/ \E r \in FillRects, c \in Colors565 : Call_ili9488_fill_area(r, c)
    \/ \E r \in FillRects, c \in Colors24 : Call_ili9488_fill_area_rgb24(r, c)
    \/ \E r \in PixelRects, a \in ColorArgs :
          Call_ili9488_write_pixels(r, a[1], a[2])
    \/ \E r \in PixelRects, a \in ColorArgs :
          Call_ili9488_write_pixels_rgb24(r, a[1], a[2])

DrawSpec == Init /\ [][DrawNext]_vars

\* the synchronous interface of the HAL, with buffers longer than a chunk
HalNext ==
    \/ \E ok \in BOOLEAN : Call_ili9488_hal_init(ok)
    \/ Call_ili9488_hal_reset
    \/ \E cmd \in DirectCmds : Call_ili9488_hal_write_cmd(cmd)
    \/ \E d \in DirectData : Call_ili9488_hal_write_data(d)
    \/ \E data \in Pointers, len \in BufferLengths :
          Call_ili9488_hal_write_data_buffer(data, len)
    \/ \E on \in BOOLEAN : Call_ili9488_hal_set_backlight(on)

HalSpec == Init /\ [][HalNext]_vars

\* rotation and display mode: bring-up, the two setters of the display
\* mode, the rotation, and the drawing calls and the DMA entry between them
ModeNext ==
    \/ \E size \in CfgSizes, r \in RotArgs : Call_ili9488_init(TRUE, size, r)
    \/ \E r \in RotArgs : Call_ili9488_set_rotation(r)
    \/ \E e \in BOOLEAN : Call_ili9488_partial_mode(e)
    \/ \E r \in PartialRects : Call_ili9488_set_partial_area(r)
    \/ \E w \in ModeWindows : Call_ili9488_set_window(w[1], w[2], w[3], w[4])
    \/ \E q \in ModePixels : Call_ili9488_draw_pixel(q[1], q[2], ModeColor)
    \/ \E r \in ModeFills : Call_ili9488_fill_area(r, ModeColor)
    \/ Call_ili9488_fill_screen(ModeColor)
    \/ Call_ili9488_fill_screen_rgb24(ModeColor24)
    \/ \E r \in ModeFills, a \in ColorArgs :
          Call_ili9488_write_pixels(r, a[1], a[2])
    \/ \E data \in Pointers, len \in Lengths :
          Call_ili9488_write_data_dma(data, len)
    \/ dma_complete_handler

ModeSpec == Init /\ [][ModeNext]_vars

\* the colour conversions applied to a colour word: the state of the driver
\* is the one after construction, and last holds the word
ConvInit ==
    /\ build \in Builds
    /\ ili9488 = [is_initialized |-> FALSE, width |-> 0, height |-> 0,
                  rotation |-> 0]
    /\ hw_config = ZeroHwConfig
    /\ gpio = [p \in Pins |-> 0]
    /\ dma_channel = NO_CHANNEL
    /\ dma_busy = FALSE
    /\ dma_hw = DmaHwIdle
    /\ pc = "ready"
    /\ halted = FALSE
    /\ bus = <<>>
    /\ \E v \in Words565 \cup Words24 :
          last = [op |-> "color", arg |-> <<v>>, ret |-> "void"]
    /\ panel = PanelReset

ConvNext ==
    \/ Call_rgb565_to_rgb666
    \/ Call_rgb24_to_rgb666
    \/ Call_rgb666_to_rgb888

ConvSpec == ConvInit /\ [][ConvNext]_vars

(***************************************************************************)
(* Reading the bus.                                                        *)
(***************************************************************************)
\* the level of the chip-select line when event i of b happens, likewise
RECURSIVE CsBefore(_, _)
CsBefore(b, i) ==
    IF i <= 1 THEN -1
    ELSE IF WritesPin(b[i - 1], PIN_CS) THEN b[i - 1][3]
    ELSE CsBefore(b, i - 1)

\* the positions of b at which bytes are clocked out to the panel
SpiAt(b) == {i \in 1..Len(b) : IsSpi(b[i])}

\* the positions from + 1 .. to - 1, in order
Between(from, to) == [j \in 1..(to - from - 1) |-> from + j]

\* the concatenation of the byte strings of the transfers at positions at
RECURSIVE BytesAt(_, _)
BytesAt(b, at) ==
    IF at = <<>> THEN <<>> ELSE b[Head(at)][3] \o BytesAt(b, Tail(at))

\* the command frames of b, in order: each byte clocked out with D/C low,
\* with the bytes clocked out with D/C high after it and before the next
Frames(b) ==
    LET IsCmd(i) == IsSpi(b[i]) /\ DcBefore(b, i) = 0
        IsData(i) == IsSpi(b[i]) /\ DcBefore(b, i) = 1
        cmds == SelectSeq(Between(0, Len(b) + 1), IsCmd)
        n == Len(cmds)
        FrameEnd(k) == IF k < n THEN cmds[k + 1] ELSE Len(b) + 1
        FrameData(k) ==
            BytesAt(b, SelectSeq(Between(cmds[k], FrameEnd(k)), IsData))
    IN [k \in 1..n |-> << b[cmds[k]][3][1], FrameData(k) >>]

\* every transfer of b is a single byte under its own chip-select assertion:
\* select, set D/C, clock one byte, deselect
OneBytePerSelect(b) ==
    \A i \in SpiAt(b) :
        /\ Len(b[i][3]) = 1
        /\ i >= 3 /\ i < Len(b)
        /\ b[i - 2] = gpio_put(PIN_CS, 0)
        /\ WritesPin(b[i - 1], PIN_DC)
        /\ b[i + 1] = gpio_put(PIN_CS, 1)

\* b drives the reset line high, low, high before it clocks any byte
ResetPulseFirst(b) ==
    \E k \in 1..Len(b) :
        /\ b[k] = gpio_put(PIN_RESET, 1)
        /\ \A m \in 1..k : ~IsSpi(b[m])
        /\ \E j \in 1..(k - 1) :
              /\ b[j] = gpio_put(PIN_RESET, 0)
              /\ \E i \in 1..(j - 1) : b[i] = gpio_put(PIN_RESET, 1)

IsDmaCall(l) ==
    l.op \in {"ili9488_hal_write_data_dma", "ili9488_write_data_dma"}
HasValidBuffer(l) == l.arg[1] # NULL /\ l.arg[2] # 0
Started(b) == \E i \in 1..Len(b) : b[i][1] = "dma_channel_start"

(***************************************************************************)
(* C1.  DMA mutual exclusion.  A call of ili9488_hal_write_data_dma (or of  *)
(* the engine's pass-through) with a non-NULL buffer of non-zero length    *)
(* returns true exactly when the busy flag is false when it is made: so a  *)
(* second call with no completion in between returns false, and the call   *)
(* after the completion handler returns true again.  A transfer is only    *)
(* ever started while the channel is idle, and the flag is set exactly     *)
(* while the channel runs: at most one transfer is in flight.              *)
(***************************************************************************)
C1_DmaMutualExclusion ==
    /\ [](dma_busy <=> dma_hw.busy)
    /\ [][ /\ (IsDmaCall(last') /\ HasValidBuffer(last'))
                => (last'.ret = "true" <=> ~dma_busy)
           /\ Started(bus') => (~dma_hw.busy /\ dma_hw'.busy)
         ]_vars

\* a second valid call while the first transfer is in flight was refused
C1_Witness ==
    /\ last.op = "ili9488_hal_write_data_dma"
    /\ HasValidBuffer(last)
    /\ last.ret = "false"
    /\ dma_busy /\ dma_hw.busy

(***************************************************************************)
(* C2.  The busy flag goes from true to false only in the DMA completion   *)
(* handler: no main-line step (a DMA call, is_dma_busy, wait_dma_idle, a   *)
(* synchronous write, init, reset) clears it, in any interleaving.         *)
(***************************************************************************)
C2_OnlyHandlerClearsBusy ==
    [][ (dma_busy /\ ~dma_busy') => last'.op = "dma_complete_handler" ]_vars

\* the handler has just cleared the flag of a transfer that was in flight
C2_Witness ==
    /\ last.op = "dma_complete_handler"
    /\ ~dma_busy
    /\ dma_hw.read_addr # NULL

C4_FailedDmaStartChangesNothing ==
    [][ (last'.op = "ili9488_hal_write_data_dma" /\ last'.ret = "false")
           => /\ dma_busy' = dma_busy
              /\ gpio' = gpio
              /\ dma_hw' = dma_hw
              /\ dma_channel' = dma_channel
              /\ bus' = <<>>
      ]_vars

\* a valid request for another buffer was refused while a transfer is in
\* flight, and the channel still holds the transfer in flight
C4_Witness ==
    /\ last.op = "ili9488_hal_write_data_dma"
    /\ last.ret = "false"
    /\ HasValidBuffer(last)
    /\ dma_hw.busy
    /\ <<dma_hw.read_addr, dma_hw.trans_count>> # last.arg
    /\ gpio[PIN_CS] = 0 /\ gpio[PIN_DC] = 1

(***************************************************************************)
(* C5.  ili9488_hal_wait_dma_idle terminates: called with no transfer in   *)
(* flight it returns at once; called with one in flight it spins and,      *)
(* since the transfer completes and the handler runs, it returns; whenever *)
(* it has returned the busy flag is false.                                 *)
(***************************************************************************)
C5_WaitDmaIdleTerminates ==
    /\ []((last.op = "ili9488_hal_wait_dma_idle" /\ last.ret = "void")
             => (~dma_busy /\ pc = "ready"))
    /\ [][ (last'.op = "ili9488_hal_wait_dma_idle" /\ pc = "ready" /\ ~dma_busy)
              => (pc' = "ready" /\ last'.ret = "void") ]_vars
    /\ ((pc = "wait_dma_idle") ~> (pc = "ready" /\ ~dma_busy))

\* the main line is still inside the wait when the handler has run
C5_Witness ==
    /\ pc = "wait_dma_idle"
    /\ last.op = "dma_complete_handler"
    /\ ~dma_busy

(***************************************************************************)
(* C6 as stated.  When the DMA start fails for a valid buffer, the         *)
(* engine's ili9488_write_data_dma falls back to the synchronous path, so  *)
(* the bytes of the buffer are still clocked out.                          *)
(***************************************************************************)
BufferClockedOut(b, data, len) ==
    \E i \in SpiAt(b) : b[i][3] = BufBytes(data, len)

C6_FallsBackToSynchronousWrite ==
    (/\ last.op = "ili9488_write_data_dma"
     /\ HasValidBuffer(last)
     /\ last.ret = "false")
        => BufferClockedOut(bus, last.arg[1], last.arg[2])

(***************************************************************************)
(* C6 amended.  When the DMA start fails for a valid buffer, the engine's  *)
(* ili9488_write_data_dma surfaces the failure to its own caller: it       *)
(* returns false exactly when the busy flag was set, and then it has only  *)
(* driven D/C to data; it clocks out no byte of the buffer and leaves the  *)
(* transfer in flight as it was.  Falling back is left to the caller.      *)
(***************************************************************************)
C6_FailureSurfacedWithoutFallback ==
    [][ (last'.op = "ili9488_write_data_dma" /\ HasValidBuffer(last'))
           => /\ last'.ret = "false" <=> dma_busy
              /\ last'.ret = "false"
                    => /\ bus' = << gpio_put(PIN_DC, 1) >>
                       /\ SpiAt(bus') = {}
                       /\ dma_hw' = dma_hw /\ dma_busy' = dma_busy
      ]_vars

\* the engine's call was refused while a transfer is in flight
C6_Witness ==
    /\ last.op = "ili9488_write_data_dma"
    /\ HasValidBuffer(last)
    /\ last.ret = "false"
    /\ dma_hw.busy
    /\ bus # <<>>

\* ms is a subsequence of fs: its elements appear in fs in the same order
RECURSIVE InOrder(_, _)
InOrder(fs, ms) ==
    IF ms = <<>> THEN TRUE
    ELSE IF fs = <<>> THEN FALSE
    ELSE IF Head(fs) = Head(ms) THEN InOrder(Tail(fs), Tail(ms))
    ELSE InOrder(Tail(fs), ms)

\* the command frames the cold boot is to emit, in their order
BootFrames ==
    << <<17, <<>>>>,
       <<54, <<72>>>>,
       <<58, <<102>>>>,
       <<197, <<0, 54, 128>>>>,
       <<224, <<240, 1, 6, 15, 18, 29, 54, 84, 68, 12, 24, 22, 19, 21>>>>,
       <<225, <<240, 1, 5, 10, 11, 7, 50, 68, 68, 12, 24, 23, 19, 22>>>>,
       <<33, <<>>>>,
       <<41, <<>>>> >>

(***************************************************************************)
(* C7.  Cold boot.  ili9488_init with a valid config on an uninitialized   *)
(* driver returns true and puts on the transport, in this order: the reset *)
(* pulse before any byte, then sleep-out 0x11, memory-access-control 0x36, *)
(* pixel-format 0x3A with data 0x66, VCOM 0xC5, the gamma tables 0xE0 and  *)
(* 0xE1, invert-on 0x21 and display-on 0x29, each byte under its own       *)
(* chip-select assertion.                                                  *)
(***************************************************************************)
C7_ColdBootOrder ==
    [][ (/\ ~ili9488.is_initialized
         /\ last'.op = "ili9488_init"
         /\ last'.arg[1] = 1)
           => /\ last'.ret = "true"
              /\ ResetPulseFirst(bus')
              /\ InOrder(Frames(bus'), BootFrames)
              /\ OneBytePerSelect(bus')
      ]_vars

\* a cold boot has just run: the panel got its display-on and the driver
\* is initialized
C7_Witness ==
    /\ last.op = "ili9488_init"
    /\ last.arg[1] = 1
    /\ last.ret = "true"
    /\ \E i \in SpiAt(bus) : bus[i][3] = <<41>>
    /\ ili9488.is_initialized

(***************************************************************************)
(* C8.  ili9488_init is idempotent: on an initialized driver a call with   *)
(* any config, NULL included, returns true, puts nothing on the transport  *)
(* (no byte, no reset pulse, no pin write) and leaves width, height and    *)
(* rotation as they were.                                                  *)
(***************************************************************************)
C8_InitIdempotent ==
    [][ (ili9488.is_initialized /\ last'.op = "ili9488_init")
           => /\ last'.ret = "true"
              /\ bus' = <<>>
              /\ ili9488' = ili9488
              /\ hw_config' = hw_config
              /\ gpio' = gpio
      ]_vars

\* a repeated init with a config of a different size, or with NULL, has
\* returned true without touching the transport
C8_Witness ==
    /\ last.op = "ili9488_init"
    /\ last.ret = "true"
    /\ bus = <<>>
    /\ ili9488.is_initialized
    /\ \/ last.arg[1] = 0
       \/ last.arg[4] # ili9488.rotation

(***************************************************************************)
(* C9.  A failed ili9488_init returns false and leaves the driver          *)
(* Uninitialized: the flag stays false, nothing is put on the transport    *)
(* and no state changes.  It is safe to retry: the next ili9488_init with  *)
(* a valid config returns true, runs the whole bring-up sequence and       *)
(* leaves the driver initialized.  The only failure there is is the NULL   *)
(* config: ili9488_hal_init fails on a NULL pointer alone, and             *)
(* ili9488_init hands it the address of a local.                           *)
(***************************************************************************)
C9_FailedInitSafeToRetry ==
    /\ []((last.op = "ili9488_init" /\ last.ret = "false")
             => (~ili9488.is_initialized /\ bus = <<>> /\ last.arg[1] = 0))
    /\ [][ (last'.op = "ili9488_init" /\ last'.ret = "false")
              => /\ ili9488' = ili9488
                 /\ hw_config' = hw_config
                 /\ gpio' = gpio ]_vars
    /\ [][ (/\ last.op = "ili9488_init" /\ last.ret = "false"
            /\ last'.op = "ili9488_init" /\ last'.arg[1] = 1)
              => /\ last'.ret = "true"
                 /\ ili9488'.is_initialized
                 /\ ResetPulseFirst(bus')
                 /\ InOrder(Frames(bus'), BootFrames) ]_vars
    /\ [][ (last'.op = "ili9488_hal_init" /\ last'.arg[1] = 0)
              => /\ last'.ret = "false"
                 /\ bus' = <<>>
                 /\ hw_config' = hw_config ]_vars

\* an init with a NULL config has just failed on an uninitialized driver
C9_Witness ==
    /\ last.op = "ili9488_init"
    /\ last.arg[1] = 0
    /\ last.ret = "false"
    /\ ~ili9488.is_initialized

WindowFrames(x0, y0, x1, y1, px) ==
    << <<42, << x0 \div 256, x0 % 256, x1 \div 256, x1 % 256 >> >>,
       <<43, << y0 \div 256, y0 % 256, y1 \div 256, y1 % 256 >> >>,
       <<44, px>> >>

MinOf(a, b) == IF a < b THEN a ELSE b
MaxOf(a, b) == IF a < b THEN b ELSE a

(***************************************************************************)
(* C11.  DisplayState invariant.  Once ili9488_init has succeeded, through *)
(* any sequence of ili9488_set_rotation calls with any argument and of     *)
(* drawing calls, the stored rotation is in 0..3 and the size is 320x480   *)
(* when it is 0 or 2 and 480x320 when it is 1 or 3, whatever size the      *)
(* config supplied.                                                        *)
(***************************************************************************)
C11_SizeFollowsRotation ==
    ili9488.is_initialized
        => /\ ili9488.rotation \in 0..3
           /\ ili9488.rotation \in {0, 2}
                 => <<ili9488.width, ili9488.height>> = <<320, 480>>
           /\ ili9488.rotation \in {1, 3}
                 => <<ili9488.width, ili9488.height>> = <<480, 320>>

\* a rotation argument above 3 has been set on an initialized driver
C11_Witness ==
    /\ ili9488.is_initialized
    /\ last.op = "ili9488_set_rotation"
    /\ last.arg[1] > 3
    /\ ili9488.rotation = last.arg[1] % 4

(***************************************************************************)
(* C12.  On an initialized driver ili9488_set_window(x0, y0, x1, y1) emits *)
(* exactly: command 0x2A with data x0>>8, x0&0xFF, x1>>8, x1&0xFF; command *)
(* 0x2B with data y0>>8, y0&0xFF, y1>>8, y1&0xFF; command 0x2C.  Columns   *)
(* come before rows, each bound is big-endian, the memory write is last,   *)
(* every byte goes out under its own chip-select assertion, and D/C is low *)
(* for the three command bytes only.                                       *)
(***************************************************************************)
C12_SetWindowFraming ==
    (last.op = "ili9488_set_window" /\ ili9488.is_initialized)
        => /\ Frames(bus) = WindowFrames(last.arg[1], last.arg[2],
                                         last.arg[3], last.arg[4], <<>>)
           /\ OneBytePerSelect(bus)
           /\ Cardinality(SpiAt(bus)) = 11
           /\ Cardinality({i \in SpiAt(bus) : DcBefore(bus, i) = 0}) = 3
           /\ Cardinality({i \in SpiAt(bus) : DcBefore(bus, i) = 1}) = 8

\* a window with bounds above 255 has been addressed
C12_Witness ==
    /\ last.op = "ili9488_set_window"
    /\ last.arg = <<300, 5, 5, 300>>
    /\ ili9488.is_initialized
    /\ Len(bus) = 44

(***************************************************************************)
(* C13 as stated.  Window normalization: ili9488_set_window(x0,y0,x1,y1)   *)
(* emits the byte stream of the call with each axis' bounds in ascending   *)
(* order, so that set_window(10,10,5,5) behaves as set_window(5,5,10,10).  *)
(***************************************************************************)
C13_WindowNormalized ==
    (last.op = "ili9488_set_window" /\ ili9488.is_initialized)
        => Frames(bus) =
              WindowFrames(MinOf(last.arg[1], last.arg[3]),
                           MinOf(last.arg[2], last.arg[4]),
                           MaxOf(last.arg[1], last.arg[3]),
                           MaxOf(last.arg[2], last.arg[4]), <<>>)

(***************************************************************************)
(* C14.  Clipped draw.  ili9488_draw_pixel(x,y,c) and                      *)
(* ili9488_draw_pixel_rgb24(x,y,c) with x >= width or y >= height of the   *)
(* current rotation put nothing on the transport and change no state.      *)
(***************************************************************************)
C14_ClippedDrawEmitsNothing ==
    [][ (/\ last'.op \in {"ili9488_draw_pixel", "ili9488_draw_pixel_rgb24"}
         /\ \/ last'.arg[1] >= ili9488.width
            \/ last'.arg[2] >= ili9488.height)
           => /\ bus' = <<>>
              /\ ili9488' = ili9488
              /\ hw_config' = hw_config
              /\ gpio' = gpio
              /\ last'.ret = "void"
      ]_vars

\* a pixel at y = 320 has been dropped by the landscape display, which
\* is 320 high
C14_Witness ==
    /\ last.op \in {"ili9488_draw_pixel", "ili9488_draw_pixel_rgb24"}
    /\ last.arg[1] = 0 /\ last.arg[2] = 320
    /\ ili9488.is_initialized
    /\ ili9488.height = 320
    /\ bus = <<>>

\* the operations that write pixels
PixelOps ==
    {"ili9488_draw_pixel", "ili9488_draw_pixel_rgb24",
     "ili9488_fill_area", "ili9488_fill_area_rgb24",
     "ili9488_write_pixels", "ili9488_write_pixels_rgb24"}

\* the payload of the last frame of b: the bytes that follow the memory write
Payload(b) == LET f == Frames(b) IN IF f = <<>> THEN <<>> ELSE f[Len(f)][2]

\* the byte strings clocked out as data after the 11 bytes of the window
PixelTransfers(b) ==
    LET IsPixels(i) == IsSpi(b[i]) /\ i > 44
    IN SelectSeq(Between(0, Len(b) + 1), IsPixels)

\* n copies of the three bytes rgb
Repeated(rgb, n) == [t \in 1..(3 * n) |-> rgb[((t - 1) % 3) + 1]]

(***************************************************************************)
(* C15 as stated.  Pixel payload format: every pixel written by the six    *)
(* pixel operations is exactly 3 data bytes, and each of them carries its  *)
(* channel in bits 0-5: its value is at most 0x3F, for every input colour. *)
(***************************************************************************)
C15_PixelBytesAreSixBit ==
    (last.op \in PixelOps /\ last.ret = "void" /\ ili9488.is_initialized)
        => LET px == Payload(bus)
           IN /\ Len(px) % 3 = 0
              /\ \A i \in 1..Len(px) : px[i] <= 63

(***************************************************************************)
(* C16.  Fill coverage.  On an initialized driver, for ordered corners     *)
(* inside the display, ili9488_fill_area(x0,y0,x1,y1,C) addresses the      *)
(* window (x0,y0,x1,y1) once and then emits exactly (x1-x0+1)*(y1-y0+1)    *)
(* pixels, each the three bytes of the RGB666 conversion of C, and nothing *)
(* else: one write per pixel when there are at most 256 of them, writes of *)
(* 256 pixels and a last partial one when there are more.                  *)
(***************************************************************************)
C16_FillCoverage ==
    (/\ last.op = "ili9488_fill_area"
     /\ ili9488.is_initialized
     /\ last.arg[1] <= last.arg[3] /\ last.arg[2] <= last.arg[4]
     /\ last.arg[3] < ili9488.width /\ last.arg[4] < ili9488.height)
        => LET n == (last.arg[3] - last.arg[1] + 1)
                    * (last.arg[4] - last.arg[2] + 1)
               at == PixelTransfers(bus)
           IN /\ last.ret = "void"
              /\ Frames(bus) =
                    WindowFrames(last.arg[1], last.arg[2], last.arg[3],
                                 last.arg[4],
                                 Repeated(rgb565_to_rgb666(last.arg[5]), n))
              /\ Len(at) = IF n <= 256 THEN n ELSE (n + 255) \div 256
              /\ \A k \in 1..Len(at) :
                    Len(bus[at[k]][3]) =
                       IF n <= 256 THEN 3
                       ELSE IF k < Len(at) THEN 768
                       ELSE 3 * (n - 256 * (Len(at) - 1))

\* 280 pixels have gone out as a full batch of 256 and a partial one of 24
C16_Witness ==
    /\ last.op = "ili9488_fill_area"
    /\ last.arg = <<0, 0, 19, 13, 4660>>
    /\ ili9488.is_initialized
    /\ \E i \in SpiAt(bus) : Len(bus[i][3]) = 768
    /\ \E i \in SpiAt(bus) : Len(bus[i][3]) = 72

\* whether the rectangle of arguments a lies inside the display of st
InRange(a, st) ==
    /\ a[1] < st.width /\ a[3] < st.width
    /\ a[2] < st.height /\ a[4] < st.height

\* the number of pixels of the rectangle of a with its corners ordered
OrderedArea(a) ==
    (MaxOf(a[1], a[3]) - MinOf(a[1], a[3]) + 1)
    * (MaxOf(a[2], a[4]) - MinOf(a[2], a[4]) + 1)

(***************************************************************************)
(* C17.  Swapped corners are normalized by the fill operations.  On an     *)
(* initialized driver, for corners inside the display in any order,        *)
(* ili9488_fill_area and ili9488_fill_area_rgb24 emit exactly what the     *)
(* call with the corners (min x, min y, max x, max y) emits: that window   *)
(* and one pixel of the colour for each of its cells.                      *)
(***************************************************************************)
C17_FillNormalizesCorners ==
    (/\ last.op \in {"ili9488_fill_area", "ili9488_fill_area_rgb24"}
     /\ ili9488.is_initialized
     /\ InRange(last.arg, ili9488))
        => LET xa == MinOf(last.arg[1], last.arg[3])
               ya == MinOf(last.arg[2], last.arg[4])
               xb == MaxOf(last.arg[1], last.arg[3])
               yb == MaxOf(last.arg[2], last.arg[4])
           IN /\ last.ret = "void"
              /\ bus = IF last.op = "ili9488_fill_area"
                       THEN ili9488_fill_area(hw_config, xa, ya, xb, yb,
                                              last.arg[5])
                       ELSE ili9488_fill_area_rgb24(ili9488, hw_config,
                                                    xa, ya, xb, yb,
                                                    last.arg[5])
              /\ Frames(bus) =
                    WindowFrames(xa, ya, xb, yb,
                       Repeated(IF last.op = "ili9488_fill_area"
                                THEN rgb565_to_rgb666(last.arg[5])
                                ELSE rgb24_to_rgb666(last.arg[5]),
                                OrderedArea(last.arg)))

\* a fill with the x axis reversed has gone out
C17_Witness ==
    /\ last.op \in {"ili9488_fill_area", "ili9488_fill_area_rgb24"}
    /\ last.arg[1] = 9 /\ last.arg[2] = 0 /\ last.arg[3] = 0 /\ last.arg[4] = 9
    /\ ili9488.is_initialized
    /\ Len(bus) > 44

(***************************************************************************)
(* C18 as stated.  Out-of-range rectangles are rejected as a no-op:        *)
(* ili9488_fill_area and ili9488_fill_area_rgb24 called with a corner      *)
(* outside [0,width) x [0,height) of the current rotation emit nothing,    *)
(* no window command and no pixel.                                         *)
(***************************************************************************)
C18_OutOfRangeFillRejected ==
    (/\ last.op \in {"ili9488_fill_area", "ili9488_fill_area_rgb24"}
     /\ ili9488.is_initialized
     /\ ~InRange(last.arg, ili9488))
        => bus = <<>>

(***************************************************************************)
(* C19.  Pixel cycling in raster order.  On an initialized driver, for     *)
(* ordered corners inside the display, a colour array that is not NULL and *)
(* len >= 1, ili9488_write_pixels addresses the window once and then emits *)
(* exactly (x1-x0+1)*(y1-y0+1) pixels, the k-th (from 0) being the RGB666  *)
(* conversion of colors[k mod len], in writes of 32 pixels and a last      *)
(* partial one; the index into the array stays below len.                  *)
(***************************************************************************)
C19_PixelCycling ==
    (/\ last.op = "ili9488_write_pixels"
     /\ ili9488.is_initialized
     /\ last.arg[5] # NULL /\ last.arg[6] >= 1
     /\ last.arg[1] <= last.arg[3] /\ last.arg[2] <= last.arg[4]
     /\ InRange(last.arg, ili9488))
        => LET n == OrderedArea(last.arg)
               len == last.arg[6]
               at == PixelTransfers(bus)
               Pixel(k) == rgb565_to_rgb666(Color565At(last.arg[5], k % len))
           IN /\ last.ret = "void"
              /\ Frames(bus) =
                    WindowFrames(last.arg[1], last.arg[2], last.arg[3],
                                 last.arg[4],
                                 [t \in 1..(3 * n) |->
                                     Pixel((t - 1) \div 3)[((t - 1) % 3) + 1]])
              /\ Len(at) = (n + 31) \div 32
              /\ \A j \in 1..Len(at) :
                    Len(bus[at[j]][3]) =
                       IF j < Len(at) THEN 96 ELSE 3 * (n - 32 * (Len(at) - 1))
              /\ \A k \in 0..(n - 1) : ColorIdx(k, len) \in 0..(len - 1)

\* 33 pixels from an array of 3 colours have gone out: a batch of 32 and one
\* more pixel
C19_Witness ==
    /\ last.op = "ili9488_write_pixels"
    /\ last.arg = <<0, 0, 10, 2, 1, 3>>
    /\ ili9488.is_initialized
    /\ \E i \in SpiAt(bus) : Len(bus[i][3]) = 96
    /\ \E i \in SpiAt(bus) : i > 44 /\ Len(bus[i][3]) = 3

(***************************************************************************)
(* C20 as stated.  ili9488_write_pixels and ili9488_write_pixels_rgb24     *)
(* never let swapped corners wrap: with x0 > x1 or y0 > y1 the corners are *)
(* normalized, so the window and the number of pixels emitted are those of *)
(* the call with ordered corners, and the 32-bit pixel count does not wrap *)
(* into another count.                                                     *)
(***************************************************************************)
C20_WritePixelsNormalizesCorners ==
    (/\ last.op \in {"ili9488_write_pixels", "ili9488_write_pixels_rgb24"}
     /\ ili9488.is_initialized
     /\ last.arg[5] # NULL /\ last.arg[6] >= 1)
        => LET f == Frames(bus)
           IN /\ last.ret = "void"
              /\ Len(f) = 3
              /\ SubSeq(f, 1, 2) =
                    SubSeq(WindowFrames(MinOf(last.arg[1], last.arg[3]),
                                        MinOf(last.arg[2], last.arg[4]),
                                        MaxOf(last.arg[1], last.arg[3]),
                                        MaxOf(last.arg[2], last.arg[4]),
                                        <<>>), 1, 2)
              /\ Len(f[3][2]) = 3 * OrderedArea(last.arg)

\* the bitwise OR of two naturals
RECURSIVE BitOr(_, _)
BitOr(a, b) ==
    IF a = 0 THEN b
    ELSE IF b = 0 THEN a
    ELSE (IF a % 2 = 1 \/ b % 2 = 1 THEN 1 ELSE 0)
         + 2 * BitOr(a \div 2, b \div 2)

\* the fields of an RGB565 word
Red5(v) == (v \div 2048) % 32
Green6(v) == (v \div 32) % 64
Blue5(v) == v % 32

(***************************************************************************)
(* C21.  rgb565_to_rgb666 is exact for every 16-bit v: with r5, g6, b5 the *)
(* fields of v it returns r = (r5<<1)|(r5>>4), g = g6, b = (b5<<1)|(b5>>4);*)
(* every output is at most 0x3F; 0x0000 gives (0,0,0) and 0xFFFF gives     *)
(* (0x3F,0x3F,0x3F).                                                       *)
(***************************************************************************)
C21_Rgb565ToRgb666Exact ==
    last.op = "rgb565_to_rgb666"
        => LET v == last.arg[1]
               out == SubSeq(last.arg, 2, 4)
           IN /\ out[1] = BitOr(2 * Red5(v), Red5(v) \div 16)
              /\ out[2] = Green6(v)
              /\ out[3] = BitOr(2 * Blue5(v), Blue5(v) \div 16)
              /\ \A i \in 1..3 : out[i] \in 0..63
              /\ v = 0 => out = <<0, 0, 0>>
              /\ v = 65535 => out = <<63, 63, 63>>

\* white has been converted
C21_Witness ==
    last.op = "rgb565_to_rgb666" /\ last.arg = <<65535, 63, 63, 63>>

(***************************************************************************)
(* C22 as stated.  rgb24_to_rgb666 right-shifts each 8-bit channel by 2:   *)
(* for every 24-bit colour c it yields r = ((c>>16)&0xFF)>>2,              *)
(* g = ((c>>8)&0xFF)>>2, b = (c&0xFF)>>2, so that channel 0x00 gives 0x00  *)
(* and channel 0xFF gives 0x3F.                                            *)
(***************************************************************************)
C22_Rgb24ShiftedByTwo ==
    last.op = "rgb24_to_rgb666"
        => LET c == last.arg[1]
           IN SubSeq(last.arg, 2, 4) =
                 << ((c \div 65536) % 256) \div 4,
                    ((c \div 256) % 256) \div 4,
                    (c % 256) \div 4 >>

(***************************************************************************)
(* C23.  Colour round trip: for every 16-bit v,                            *)
(* rgb666_to_rgb888(rgb565_to_rgb666(v)) keeps the top 5 bits of each      *)
(* channel: the top 5 bits of the red and blue outputs are the 5-bit       *)
(* fields of v, those of the green output the top 5 of its 6 bits; 0x0000  *)
(* gives (0,0,0) and 0xFFFF gives (255,255,255).                           *)
(***************************************************************************)
C23_ColorRoundTrip ==
    last.op = "rgb666_to_rgb888"
        => LET v == last.arg[1]
               out == SubSeq(last.arg, 5, 7)
           IN /\ out[1] \div 8 = Red5(v)
              /\ out[2] \div 8 = Green6(v) \div 2
              /\ out[3] \div 8 = Blue5(v)
              /\ \A i \in 1..3 : out[i] \in 0..255
              /\ v = 0 => out = <<0, 0, 0>>
              /\ v = 65535 => out = <<255, 255, 255>>

\* a colour whose three fields differ has gone through both conversions
C23_Witness ==
    /\ last.op = "rgb666_to_rgb888"
    /\ last.arg[1] = 4660
    /\ Len(last.arg) = 7

\* a bound clamped into 0 .. side - 1
ClampTo(v, side) == IF v >= side THEN side - 1 ELSE v

\* the one frame of a partial-area command for the rows ya .. yb
PartialAreaFrame(ya, yb) ==
    << << ILI9488_PTLAR,
          << HighByte(ya), LowByte(ya), HighByte(yb), LowByte(yb) >> >> >>

(***************************************************************************)
(* C24 as stated.  ili9488_set_partial_area normalizes and clamps rather   *)
(* than rejects: on an initialized driver, for every input, reversed       *)
(* bounds are swapped, out-of-range bounds are clamped into the display,   *)
(* and the partial-area command 0x30 with the resulting rows is emitted;   *)
(* no input makes the call a silent no-op.                                 *)
(***************************************************************************)
C24_PartialAreaClampedNeverRejected ==
    (last.op = "ili9488_set_partial_area" /\ ili9488.is_initialized)
        => LET ya == ClampTo(MinOf(last.arg[2], last.arg[4]), ili9488.height)
               yb == ClampTo(MaxOf(last.arg[2], last.arg[4]), ili9488.height)
           IN Frames(bus) = PartialAreaFrame(ya, yb)

(***************************************************************************)
(* C24 as amended.  On an initialized driver ili9488_set_partial_area      *)
(* swaps reversed bounds and rejects out-of-range ones: when all four      *)
(* bounds are inside the display of the current rotation it emits one      *)
(* partial-area command, 0x30 with the row range in ascending order, high  *)
(* byte first, and nothing else; when any bound is outside it emits        *)
(* nothing.                                                                *)
(***************************************************************************)
C24_PartialAreaSwappedOrRejected ==
    (last.op = "ili9488_set_partial_area" /\ ili9488.is_initialized)
        => IF InRange(last.arg, ili9488)
           THEN /\ Frames(bus) =
                      PartialAreaFrame(MinOf(last.arg[2], last.arg[4]),
                                       MaxOf(last.arg[2], last.arg[4]))
                /\ OneBytePerSelect(bus)
                /\ panel.rows = << MinOf(last.arg[2], last.arg[4]),
                                   MaxOf(last.arg[2], last.arg[4]) >>
           ELSE bus = <<>>

\* a reversed band has been sent in ascending order
C24_Witness ==
    /\ last.op = "ili9488_set_partial_area"
    /\ ili9488.is_initialized
    /\ last.arg = <<0, 200, 319, 100>>
    /\ Frames(bus) = << <<48, <<0, 100, 0, 200>> >> >>

(***************************************************************************)
(* C25 as stated.  Partial-range invariant: in every reachable state,      *)
(* while partial mode is on, the row range most recently sent with the     *)
(* partial-area command satisfies y0 <= y1 and lies within [0, height) of  *)
(* the current logical height.                                             *)
(***************************************************************************)
C25_PartialRangeWithinHeight ==
    (panel.partial /\ panel.rows # <<>>)
        => /\ panel.rows[1] <= panel.rows[2]
           /\ panel.rows[2] < ili9488.height

\* the calls that address the memory of the panel
WindowOps ==
    {"ili9488_set_window", "ili9488_draw_pixel", "ili9488_fill_area",
     "ili9488_fill_screen", "ili9488_write_pixels"}

(***************************************************************************)
(* C26 as stated.  After ili9488_partial_mode(true) and                    *)
(* ili9488_set_partial_area with the row band [y0,y1], every window set,   *)
(* by ili9488_set_window or by a drawing call, is restricted to the band:  *)
(* the row bounds it sends lie within [y0,y1].                             *)
(***************************************************************************)
C26_WindowWithinBand ==
    (last.op \in WindowOps /\ panel.partial /\ panel.rows # <<>>)
        => LET f == Frames(bus)
           IN \A k \in 1..Len(f) :
                 (f[k][1] = ILI9488_PASET /\ Len(f[k][2]) = 4)
                     => /\ 256 * f[k][2][1] + f[k][2][2] >= panel.rows[1]
                        /\ 256 * f[k][2][3] + f[k][2][4] <= panel.rows[2]

(***************************************************************************)
(* C27 as stated.  ili9488_hal_reset, on an initialized transport, drives  *)
(* the reset line high, low, high in that order, with a settle delay of at *)
(* least 10 ms before the low pulse, a low pulse of at least 20 ms and a   *)
(* recovery delay of at least 120 ms after the line is released; the line  *)
(* is high when it returns.                                                *)
(***************************************************************************)
C27_ResetPulseTimings ==
    (last.op = "ili9488_hal_reset" /\ hw_config.spi # NULL)
        => /\ Len(bus) = 6
           /\ bus[1] = gpio_put(PIN_RESET, 1)
           /\ bus[2][1] = "delay_ms" /\ bus[2][2] >= 10
           /\ bus[3] = gpio_put(PIN_RESET, 0)
           /\ bus[4][1] = "delay_ms" /\ bus[4][2] >= 20
           /\ bus[5] = gpio_put(PIN_RESET, 1)
           /\ bus[6][1] = "delay_ms" /\ bus[6][2] >= 120
           /\ gpio[PIN_RESET] = 1

\* the three synchronous writes of the HAL
SyncWrites ==
    {"ili9488_hal_write_cmd", "ili9488_hal_write_data",
     "ili9488_hal_write_data_buffer"}

C29_ChunkingInvisible ==
    (last.op = "ili9488_hal_write_data_buffer" /\ hw_config.spi # NULL)
        => IF last.arg[1] = NULL \/ last.arg[2] = 0 THEN bus = <<>>
           ELSE LET n == Len(bus)
                IN /\ last.ret = "void"
                   /\ n >= 4
                   /\ bus[1] = gpio_put(PIN_CS, 0)
                   /\ bus[2] = gpio_put(PIN_DC, 1)
                   /\ bus[n] = gpio_put(PIN_CS, 1)
                   /\ \A i \in 3..(n - 1) :
                         /\ IsSpi(bus[i]) /\ bus[i][2] = SPI0
                         /\ Len(bus[i][3]) \in 1..CHUNK_SIZE
                   /\ BytesAt(bus, Between(2, n))
                         = BufBytes(last.arg[1], last.arg[2])

\* the commands clocked out in b
CmdsOf(b) == LET f == Frames(b) IN {f[k][1] : k \in 1..Len(f)}

\* the commands of the display mode
ModeCmds == {ILI9488_PTLON, ILI9488_NORON, ILI9488_PTLAR}

\* the calls C30 names that are not the setter of the rotation, and those
\* among them that are not setters of the display mode either
ModeSetters == {"ili9488_partial_mode", "ili9488_set_partial_area"}
NotRotationSetters ==
    WindowOps \cup {"ili9488_write_data_dma"} \cup ModeSetters

(***************************************************************************)
(* C30.  Rotation and refresh mode are independent and persistent.         *)
(* ili9488_set_window, draw_pixel, fill_area, fill_screen, write_pixels,   *)
(* write_data_dma, partial_mode and set_partial_area leave width, height   *)
(* and rotation as they are and emit no memory-access-control command;     *)
(* ili9488_set_rotation emits no partial-mode, normal-mode or partial-area *)
(* command and leaves the display mode as it is, as do the drawing calls;  *)
(* the size and rotation change only in ili9488_set_rotation (and the      *)
(* bring-up that calls it), the display mode only in its two setters.      *)
(***************************************************************************)
C30_RotationAndModeIndependent ==
    [][ /\ last'.op \in NotRotationSetters
            => /\ ili9488' = ili9488
               /\ ILI9488_MADCTL \notin CmdsOf(bus')
        /\ last'.op \in (NotRotationSetters \ ModeSetters)
                        \cup {"ili9488_set_rotation"}
            => /\ panel' = panel
               /\ CmdsOf(bus') \cap ModeCmds = {}
        /\ ili9488' # ili9488
            => last'.op \in {"ili9488_set_rotation", "ili9488_init"}
        /\ (panel' # panel /\ ili9488.is_initialized)
            => last'.op \in ModeSetters
      ]_vars

\* the display has been rotated with partial mode on and a band set, and
\* both are still in force
C30_Witness ==
    /\ last.op = "ili9488_set_rotation"
    /\ ili9488.is_initialized /\ ili9488.rotation = 1
    /\ panel = [partial |-> TRUE, rows |-> <<100, 200>>]


(***************************************************************************)
(* C31.  The lines are held while a transfer is in flight.  Whenever the   *)
(* busy flag is set on a configured transport, chip-select is asserted and *)
(* D/C is at data, and the call that has just returned, unless it is one   *)
(* of the two DMA entries, has clocked no byte and written neither line:   *)
(* no synchronous write, called directly or through the engine, disturbs  *)
(* the transfer before the completion handler runs.                        *)
(***************************************************************************)
WritesLines(b) ==
    \E i \in 1..Len(b) :
        IsSpi(b[i]) \/ WritesPin(b[i], PIN_CS) \/ WritesPin(b[i], PIN_DC)

C31_LinesHeldDuringDma ==
    (dma_busy /\ hw_config.spi # NULL) =>
        /\ gpio[PIN_CS] = 0
        /\ gpio[PIN_DC] = 1
        /\ ~IsDmaCall(last) => ~WritesLines(bus)


(***************************************************************************)
(* C32.  The completion handler does its three steps and nothing else.  A  *)
(* step of the handler releases chip-select, clears the busy flag and      *)
(* acknowledges the interrupt of the channel: it writes no other line      *)
(* (D/C keeps its level), clocks no byte, and leaves the channel number,   *)
(* the source the channel was given, the transport configuration, the      *)
(* display state and the display mode as they were.                        *)
(***************************************************************************)
C32_HandlerDoesThreeSteps ==
    [][last'.op = "dma_complete_handler" =>
          /\ Len(bus') = 2
          /\ bus'[1] = gpio_put(PIN_CS, 1)
          /\ bus'[2] = <<"dma_acknowledge_irq0", dma_channel>>
          /\ gpio' = [gpio EXCEPT ![PIN_CS] = 1]
          /\ ~dma_busy'
          /\ dma_channel' = dma_channel
          /\ dma_hw'.read_addr = dma_hw.read_addr
          /\ hw_config' = hw_config
          /\ ili9488' = ili9488
          /\ panel' = panel
          /\ ~halted']_vars

C32_Witness ==
    /\ last.op = "dma_complete_handler"
    /\ ~dma_busy
    /\ gpio[PIN_CS] = 1
    /\ gpio[PIN_DC] = 0
    /\ dma_channel # NO_CHANNEL
    /\ ili9488.is_initialized


(***************************************************************************)
(* C33.  The channel is allocated lazily and exactly once.  Nothing but a  *)
(* DMA entry called with a non-NULL buffer of non-zero length claims or    *)
(* configures a channel or installs the interrupt; the first such call     *)
(* does each of these once, and stores the channel; once a channel is      *)
(* held its number never changes and no call claims or configures again,   *)
(* whether it starts a transfer or is refused.                             *)
(***************************************************************************)
SetUpEvents ==
    {"dma_claim", "dma_set_irq0_enabled", "irq_set_exclusive_handler",
     "irq_set_enabled", "dma_channel_configure"}

SetUpOf(b) ==
    LET IsSetUp(e) == e[1] \in SetUpEvents
    IN  SelectSeq(b, IsSetUp)

C33_ChannelClaimedOnce ==
    [][LET setup == SetUpOf(bus')
           valid == IsDmaCall(last') /\ HasValidBuffer(last')
       IN  /\ (valid /\ dma_channel = NO_CHANNEL) =>
                 /\ dma_channel' \in DmaChannels
                 /\ Len(setup) = 5
                 /\ setup[1] = <<"dma_claim", dma_channel'>>
                 /\ setup[2] = <<"dma_set_irq0_enabled", dma_channel'>>
                 /\ setup[3][2] = "dma_complete_handler"
                 /\ setup[4][1] = "irq_set_enabled"
                 /\ setup[5] = <<"dma_channel_configure", dma_channel',
                                 hw_config.spi>>
           /\ ~(valid /\ dma_channel = NO_CHANNEL) =>
                 /\ setup = <<>>
                 /\ dma_channel' = dma_channel]_vars

\* a second transfer started on the channel the first call claimed
C33_Witness ==
    /\ IsDmaCall(last) /\ HasValidBuffer(last)
    /\ last.ret = "true"
    /\ SetUpOf(bus) = <<>>
    /\ dma_channel \in DmaChannels


(***************************************************************************)
(* C34.  Idle means deselected.  In every state the main line can observe  *)
(* once the transport is configured (ili9488_hal_init has stored the SPI   *)
(* instance and the pins), a clear busy flag comes with chip-select high:  *)
(* the handler has released the line by the time the flag reads false, and *)
(* every synchronous write has released it by the time it returns.         *)
(***************************************************************************)
C34_IdleImpliesDeselected ==
    (hw_config.spi # NULL /\ ~halted /\ ~dma_busy) => gpio[PIN_CS] = 1

\* the main line reads the flag clear after a transfer has completed
C34_Witness ==
    /\ last.op = "ili9488_hal_is_dma_busy"
    /\ last.ret = "false"
    /\ dma_channel \in DmaChannels
    /\ ~dma_hw.busy
    /\ gpio[PIN_CS] = 1


(***************************************************************************)
(* C35.  The whole-screen fills address a window inside the panel.  In     *)
(* every state in which ili9488_fill_screen or ili9488_fill_screen_rgb24   *)
(* is called, before initialization too, a call that clocks any byte has a *)
(* display of non-zero size to address and begins with the window          *)
(* (0, 0, width - 1, height - 1), its corner below 65535: nothing wraps    *)
(* around.  A call that returns having sent its whole stream has sent      *)
(* width * height pixels.                                                  *)
(***************************************************************************)
FillScreenOps == {"ili9488_fill_screen", "ili9488_fill_screen_rgb24"}

\* the first n bytes clocked out in b, fewer if b holds fewer
FirstBytes(b, n) ==
    LET IsByte(i) == IsSpi(b[i]) /\ i <= 4 * n
        at == SelectSeq(Between(0, MinOf(Len(b), 4 * n) + 1), IsByte)
    IN  BytesAt(b, at)

C35_FillScreenInsidePanel ==
    (last.op \in FillScreenOps /\ last.ret # "fault") =>
        /\ SpiAt(bus) # {} =>
              /\ ili9488.width > 0 /\ ili9488.height > 0
              /\ FirstBytes(bus, 11) =
                    << 42, 0, 0, (ili9488.width - 1) \div 256,
                                 (ili9488.width - 1) % 256,
                       43, 0, 0, (ili9488.height - 1) \div 256,
                                 (ili9488.height - 1) % 256,
                       44 >>
        /\ last.ret = "void" =>
              Cardinality(SpiAt(bus)) \in {0, 11}
              /\ ili9488.width * ili9488.height = 0


(***************************************************************************)
(* C36.  The batched fill is equivalent to the per-pixel fill.  For every  *)
(* ili9488_fill_area that sends its whole stream, the data bytes that      *)
(* follow the window, concatenated, are the bytes a loop of one            *)
(* ili9488_hal_write_data_buffer(data, 3) per pixel clocks out for the     *)
(* same window and colour (the loop of the small-area path and of the      *)
(* legacy ili9488_fill_screen); above 256 pixels they go out in fewer      *)
(* writes, one per 256 pixels, and only this grouping differs.             *)
(***************************************************************************)
\* for (i = 0; i < n; i++) ili9488_hal_write_data_buffer(data, 3)
PerPixelLoop(hw, n, rgb) ==
    LET one == ili9488_hal_write_data_buffer(hw, LocalBuffer, rgb, 3)
        per == Len(one)
    IN  [i \in 1..(n * per) |-> one[((i - 1) % per) + 1]] \o <<>>

\* the bytes clocked out in b, concatenated, every write of b being one of
\* three bytes
LoopBytes(b) ==
    LET IsByte(i) == IsSpi(b[i])
        at == SelectSeq(Between(0, Len(b) + 1), IsByte)
    IN  [t \in 1..(3 * Len(at)) |->
            b[at[(t - 1) \div 3 + 1]][3][((t - 1) % 3) + 1]] \o <<>>

C36_BatchedFillEqualsPerPixel ==
    (last.op = "ili9488_fill_area" /\ last.ret = "void") =>
        LET n == (MaxOf(last.arg[1], last.arg[3])
                  - MinOf(last.arg[1], last.arg[3]) + 1)
                 * (MaxOf(last.arg[2], last.arg[4])
                    - MinOf(last.arg[2], last.arg[4]) + 1)
            loop == PerPixelLoop(hw_config, n, rgb565_to_rgb666(last.arg[5]))
            at == PixelTransfers(bus)
        IN  /\ BytesAt(bus, at) = LoopBytes(loop)
            /\ Len(at) = IF n <= 256 THEN n ELSE (n + 255) \div 256

\* 280 pixels sent in two writes carry the 840 bytes of 280 single writes
C36_Witness ==
    /\ last.op = "ili9488_fill_area"
    /\ last.ret = "void"
    /\ Len(PixelTransfers(bus)) = 2
    /\ Len(BytesAt(bus, PixelTransfers(bus))) = 840


(***************************************************************************)
(* C37.  An uninitialized driver touches no bus.  Until an                 *)
(* ili9488_hal_init has succeeded (the transport holds no SPI instance),   *)
(* every call returns without clocking a byte and without writing a GPIO   *)
(* line: the command and data writes, the reset and the backlight calls    *)
(* are no-ops, and every line is as it was after construction.             *)
(***************************************************************************)
C37_UninitializedTouchesNoBus ==
    hw_config.spi = NULL =>
        /\ \A i \in 1..Len(bus) : ~IsSpi(bus[i]) /\ ~IsGpio(bus[i])
        /\ \A p \in DOMAIN gpio : gpio[p] = 0


(***************************************************************************)
(* C38.  ili9488_hal_init performs the hardware reset itself.  A call of   *)
(* ili9488_hal_init that returns true has driven the reset line high, low  *)
(* and high again, in this order, before it returns.                       *)
(***************************************************************************)
C38_HalInitResetsPanel ==
    (last.op = "ili9488_hal_init" /\ last.ret = "true") =>
        \E i, j, k \in 1..Len(bus) :
            /\ i < j /\ j < k
            /\ bus[i] = gpio_put(PIN_RESET, 1)
            /\ bus[j] = gpio_put(PIN_RESET, 0)
            /\ bus[k] = gpio_put(PIN_RESET, 1)

==============================================================================
